---- MODULE Spec2Model ----
(***************************************************************************)
(* Model of the tsmorph extraction scripts:                                *)
(*   scripts/refactor-tsx.ts        (top-level pass, class TSXRefactorer)  *)
(*   scripts/refactor-tsx-pass2.ts  (nested pass, class TSXRefactorer2)    *)
(* A run of a script is a process: it loads the origin module into memory, *)
(* edits the in-memory tree step by step, and saves files to storage.      *)
(* Storage (disk) outlives the runs; everything else dies with the run.    *)
(***************************************************************************)
EXTENDS Integers, Sequences, FiniteSets, TLC

\* ------------------------------------------------------------------ bounds
\* most top-level statements of an origin module
MaxStmts == 3
\* most script runs in one behaviour
MaxRuns == 2
\* files analyze-types is given in one run
MaxFiles == 2
\* characters in a string literal
MaxLiteralLen == 2
\* most top-level statements of an origin module when stages are run to their end
MaxStageStmts == 1

\* directories deep a path handed to toModuleSpecifier is
MaxDepth == 2

\* import declarations in the component file handed to fix-lint
MaxImports == 2

\* ------------------------------------------------------- program constants
DEFAULT_MIN_FUNCTION_LINES == 20
DEFAULT_MIN_VARIABLE_LINES == 10
\* '^(validate|format|get|handle)': a pattern is the set of name prefixes it accepts
DEFAULT_UTIL_PATTERN == {"validate", "format", "get", "handle"}
DEFAULT_HELPER_PATTERN == {"validate", "get", "format", "handle"}

\* ------------------------------------------------------------ sequences
RECURSIVE SeqToSet(_)
SeqToSet(s) == IF s = <<>> THEN {} ELSE {Head(s)} \cup SeqToSet(Tail(s))

RECURSIVE SumSeq(_)
SumSeq(s) == IF s = <<>> THEN 0 ELSE Head(s) + SumSeq(Tail(s))

Front(s) == SubSeq(s, 1, Len(s) - 1)
Last(s) == s[Len(s)]

RECURSIVE Flatten(_)
Flatten(ss) == IF ss = <<>> THEN <<>> ELSE Head(ss) \o Flatten(Tail(ss))

\* Array.from(new Set(xs)): first occurrences, in insertion order
RECURSIVE Dedup(_)
Dedup(s) ==
  IF s = <<>> THEN <<>>
  ELSE LET front == Dedup(Front(s))
       IN IF Last(s) \in SeqToSet(front) THEN front ELSE Append(front, Last(s))

NoDuplicates(s) == \A i, j \in 1..Len(s) : s[i] = s[j] => i = j

\* ---------------------------------------------------------------- paths
\* A file path is [dir: sequence of directory names, parts: the file name
\* split at its dots], so "Dashboard.types.ts" is <<"Dashboard","types","ts">>.
SourceExts == {"ts", "tsx", "js", "jsx"}

\* names of directories that begin with a dot
DotSegments == {".", "..", ".config"}

resolveOutputPath(inputFile, suffix) ==
  IF Last(inputFile.parts) \in {"tsx", "ts"}
  THEN [inputFile EXCEPT !.parts = Front(inputFile.parts) \o suffix]
  ELSE [inputFile EXCEPT !.parts = inputFile.parts \o suffix]

RECURSIVE CommonPrefixLen(_, _)
CommonPrefixLen(a, b) ==
  IF a = <<>> \/ b = <<>> \/ Head(a) # Head(b) THEN 0
  ELSE 1 + CommonPrefixLen(Tail(a), Tail(b))

\* path.relative(path.dirname(fromFile), toFile), as directory segments
RelativeSegs(fromDir, toDir) ==
  LET k == CommonPrefixLen(fromDir, toDir)
  IN [i \in 1..(Len(fromDir) - k) |-> ".."] \o SubSeq(toDir, k + 1, Len(toDir))

\* A module specifier is [segs, parts]; './Dashboard.types' is
\* [segs |-> <<".">>, parts |-> <<"Dashboard","types">>].
toModuleSpecifier(fromFile, toFile) ==
  LET segs == RelativeSegs(fromFile.dir, toFile.dir)
      parts == IF Len(toFile.parts) > 1 /\ Last(toFile.parts) \in SourceExts
               THEN Front(toFile.parts) ELSE toFile.parts
      startsWithDot == IF segs # <<>> THEN segs[1] \in DotSegments
                       ELSE parts[1] = "" /\ Len(parts) > 1
  IN [segs |-> IF startsWithDot THEN segs ELSE <<".">> \o segs, parts |-> parts]

TargetFile == [dir |-> <<"src", "components">>, parts |-> <<"Dashboard", "tsx">>]
TypesFile == resolveOutputPath(TargetFile, <<"types", "ts">>)
UtilsFile == resolveOutputPath(TargetFile, <<"utils", "ts">>)

TypesSpecifier == toModuleSpecifier(TargetFile, TypesFile)
UtilsSpecifier == toModuleSpecifier(TargetFile, UtilsFile)
ReactSpecifier == [segs |-> <<>>, parts |-> <<"react">>]

\* ---------------------------------------------------------------- names
\* the leading word of a name, which is what the '^(a|b|c)' patterns look at
NamePrefix(name) ==
  CASE name \in {"validateForm", "validateInput"} -> "validate"
    [] name \in {"formatCurrency", "formatDate"} -> "format"
    [] name \in {"getLabel", "getRoleBadgeColor", "getA", "getCount"} -> "get"
    [] name \in {"handleA", "handleB", "handleSubmit", "handleReset"} -> "handle"
    [] OTHER -> "other"

\* RegExp.test(name)
PatternTest(pattern, name) == NamePrefix(name) \in pattern

\* ------------------------------------------------------------ syntax trees
\* A statement is a record; id tells declarations of the same name apart
\* (two interface declarations of one name merge in TypeScript).
\*   kind = "interface" | "alias" | "function": name, exported, lines
\*   kind = "var": kw (const, let, var), exported, decls
\*   kind = "other": any other statement (a return, a hook call)
\* A declaration of a variable statement is [name, lines, init, body] with
\* init = "arrowBlock" (arrow function with a block body, whose statements
\* are body), "arrowExpr" (arrow function with an expression body) or
\* "value" (anything else).
TypeDecl(id, kind, name, exported, lines) ==
  [id |-> id, kind |-> kind, name |-> name, exported |-> exported, kw |-> "",
   lines |-> lines, decls |-> <<>>]

FuncDecl(id, name, lines) ==
  [id |-> id, kind |-> "function", name |-> name, exported |-> FALSE, kw |-> "",
   lines |-> lines, decls |-> <<>>]

VarDecl(name, lines, init, body) ==
  [name |-> name, lines |-> lines, init |-> init, body |-> body]

VarStmt(id, kw, exported, decls) ==
  [id |-> id, kind |-> "var", name |-> "", exported |-> exported, kw |-> kw,
   lines |-> 0, decls |-> decls]

OtherStmt(id) ==
  [id |-> id, kind |-> "other", name |-> "", exported |-> FALSE, kw |-> "",
   lines |-> 1, decls |-> <<>>]

Arrow(name) == VarDecl(name, 3, "arrowBlock", <<OtherStmt(1)>>)

\* An import declaration: specifier, named imports, default import ("" when
\* there is none), type-only flag.
\* an import declaration that is always written as `import type`
TypeOnlyImportDecl(spec, names, def, typeOnly) ==
  [spec |-> spec, names |-> names, def |-> def, typeOnly |-> TRUE]

ImportDecl(spec, names, def, typeOnly) ==
  [spec |-> spec, names |-> names, def |-> def, typeOnly |-> typeOnly]

\* A module (source file): exists is FALSE for a path with no file.
Module(imports, stmts) == [exists |-> TRUE, imports |-> imports, stmts |-> stmts]
NoFile == [exists |-> FALSE, imports |-> <<>>, stmts |-> <<>>]

IsArrow(decl) == decl.init \in {"arrowBlock", "arrowExpr"}

\* the names a statement declares
DeclaredNames(stmt) ==
  IF stmt.kind = "var" THEN {stmt.decls[j].name : j \in 1..Len(stmt.decls)}
  ELSE IF stmt.kind = "other" THEN {} ELSE {stmt.name}

\* the names a module exports
ExportedNames(mod) ==
  UNION {DeclaredNames(mod.stmts[i]) : i \in {k \in 1..Len(mod.stmts) : mod.stmts[k].exported}}

StmtIds(stmts) == {stmts[i].id : i \in 1..Len(stmts)}
StmtById(stmts, id) == stmts[CHOOSE i \in 1..Len(stmts) : stmts[i].id = id]
RemoveById(stmts, id) == SelectSeq(stmts, LAMBDA s : s.id # id)

\* -------------------------------------------------- the origin modules tried
\* bodies of the composite definition (the component)
ScenarioBody ==
  << VarStmt(1, "const", FALSE, <<Arrow("validateForm")>>),
     VarStmt(2, "const", FALSE, <<Arrow("getRoleBadgeColor")>>),
     VarStmt(3, "const", FALSE, <<Arrow("unrelatedHelper")>>) >>

MixedBody ==
  << OtherStmt(1),
     VarStmt(2, "const", FALSE, <<VarDecl("tmp", 1, "value", <<>>), Arrow("getA")>>),
     VarStmt(3, "const", FALSE, <<Arrow("unrelatedHelper")>>),
     OtherStmt(4) >>

PairBody ==
  << VarStmt(1, "const", FALSE, <<Arrow("handleA"), Arrow("handleB")>>),
     OtherStmt(2) >>

NoMatchBody ==
  << VarStmt(1, "const", FALSE, <<VarDecl("getCount", 1, "value", <<>>)>>),
     VarStmt(2, "const", FALSE, <<Arrow("unrelatedHelper")>>) >>

Component(id, init, body) ==
  VarStmt(id, "const", TRUE, <<VarDecl("Dashboard", 30, init, body)>>)

\* top-level statements an origin module is made of, in file order
StmtPool ==
  << VarStmt(1, "const", FALSE, <<VarDecl("formatCurrency", 12, "arrowExpr", <<>>)>>),
     TypeDecl(2, "interface", "User", FALSE, 6),
     FuncDecl(3, "bigFn", 21),
     TypeDecl(4, "interface", "User", FALSE, 3),
     TypeDecl(5, "alias", "Role", TRUE, 1),
     FuncDecl(6, "formatDate", 20),
     VarStmt(7, "let", FALSE, <<VarDecl("validateInput", 12, "arrowBlock", <<OtherStmt(1)>>),
                                VarDecl("helperCfg", 1, "value", <<>>)>>),
     VarStmt(8, "const", FALSE, <<VarDecl("getLabel", 10, "arrowBlock", <<OtherStmt(1)>>)>>),
     VarStmt(9, "var", FALSE, <<VarDecl("handleSubmit", 12, "arrowBlock", <<OtherStmt(1)>>),
                                VarDecl("handleReset", 11, "arrowBlock", <<OtherStmt(1)>>)>>),
     Component(10, "arrowBlock", ScenarioBody),
     Component(11, "arrowBlock", MixedBody),
     Component(12, "arrowBlock", PairBody),
     Component(13, "arrowBlock", NoMatchBody),
     Component(14, "arrowExpr", <<>>) >>

ComponentIds == 10..14

\* the statements of the pool picked by ids, in file order
PickStmts(ids) == SelectSeq(StmtPool, LAMBDA s : s.id \in ids)

\* origin modules: at most MaxStmts statements, at most one component,
\* one import of react
Origins ==
  { Module(<<ImportDecl(ReactSpecifier, <<"useState">>, "React", FALSE)>>, PickStmts(ids)) :
      ids \in {S \in SUBSET (1..Len(StmtPool)) :
                 Cardinality(S) <= MaxStmts /\ Cardinality(S \cap ComponentIds) <= 1} }

\* ===================================================== refactor-tsx.ts
\* the comparison written with >= instead of >
AtLeastThreshold(lineCount, threshold) == lineCount >= threshold

\* getNodeLineCount(node) > threshold
ExceedsThreshold(lineCount, threshold) == lineCount > threshold

Candidate(name, node, decl, lineCount, type) ==
  [name |-> name, node |-> node, decl |-> decl, lineCount |-> lineCount, type |-> type]

\* lines a statement takes in the file
Height(stmt) ==
  IF stmt.kind # "var" THEN stmt.lines
  ELSE LET ls == {stmt.decls[j].lines : j \in 1..Len(stmt.decls)}
       IN CHOOSE l \in ls : \A m \in ls : m <= l

\* node.getStartLineNumber(): statements follow one another from line 1 on,
\* and a declaration starts where its statement starts
getStartLineNumber(stmts, id) ==
  LET i == CHOOSE k \in 1..Len(stmts) : stmts[k].id = id
  IN 1 + SumSeq([k \in 1..(i - 1) |-> Height(stmts[k])])

\* node.getEndLineNumber() of a node of the given number of lines
getEndLineNumber(stmts, id, lines) == getStartLineNumber(stmts, id) + lines - 1

\* the line count without the + 1
LineDifference(start, end) == end - start
\* getNodeLineCount: end - start + 1
getNodeLineCount(start, end) == end - start + 1

\* getNodeLineCount(node) for the node of the given statement
LineCountOf(stmts, id, lines) ==
  getNodeLineCount(getStartLineNumber(stmts, id), getEndLineNumber(stmts, id, lines))

\* the declarations of a statement gone through from the last to the first
VariableCandidatesBackwards(stmts, stmt, minVariableLines) ==
  LET n == Len(stmt.decls)
      count(j) == LineCountOf(stmts, stmt.id, stmt.decls[j].lines)
      js == SelectSeq([j \in 1..n |-> n + 1 - j],
                      LAMBDA j : ExceedsThreshold(count(j), minVariableLines))
  IN [k \in 1..Len(js) |->
        Candidate(stmt.decls[js[k]].name, stmt.id, js[k], count(js[k]), "variable")]
\* candidates of one variable statement: its declarations above the threshold
VariableCandidates(stmts, stmt, minVariableLines) ==
  LET count(j) == LineCountOf(stmts, stmt.id, stmt.decls[j].lines)
      js == SelectSeq([j \in 1..Len(stmt.decls) |-> j],
                      LAMBDA j : ExceedsThreshold(count(j), minVariableLines))
  IN [k \in 1..Len(js) |->
        Candidate(stmt.decls[js[k]].name, stmt.id, js[k], count(js[k]), "variable")]

\* TSXRefactorer.analyzeFile: functions, then variables, then interfaces,
\* then type aliases
analyzeFile(stmts, minFunctionLines, minVariableLines) ==
  LET OfKind(k) == SelectSeq(stmts, LAMBDA s : s.kind = k)
      count(s) == LineCountOf(stmts, s.id, s.lines)
      functions == SelectSeq(OfKind("function"),
                             LAMBDA f : ExceedsThreshold(count(f), minFunctionLines))
      variableStatements == OfKind("var")
      interfaces == OfKind("interface")
      typeAliases == OfKind("alias")
  IN [i \in 1..Len(functions) |->
        Candidate(functions[i].name, functions[i].id, 0, count(functions[i]), "function")]
     \o Flatten([i \in 1..Len(variableStatements) |->
                   VariableCandidates(stmts, variableStatements[i], minVariableLines)])
     \o [i \in 1..Len(interfaces) |->
           Candidate(interfaces[i].name, interfaces[i].id, 0, count(interfaces[i]), "interface")]
     \o [i \in 1..Len(typeAliases) |->
           Candidate(typeAliases[i].name, typeAliases[i].id, 0, count(typeAliases[i]), "type")]

CandidateNames(cands) == [i \in 1..Len(cands) |-> cands[i].name]

\* extractTypes: candidates.filter(c => c.type === 'interface' || c.type === 'type')
TypeCandidates(cands) == SelectSeq(cands, LAMBDA c : c.type \in {"interface", "type"})

\* extractUtilities: candidates.filter(c => c.type === 'variable' && pattern.test(c.name))
UtilCandidates(cands, pattern) ==
  SelectSeq(cands, LAMBDA c : c.type = "variable" /\ PatternTest(pattern, c.name))

\* text.startsWith('export ') ? text : `export ${text}`
ExportTypeText(stmt) == IF stmt.exported THEN stmt ELSE [stmt EXCEPT !.exported = TRUE]

\* the export prefix put before the text, the keyword left as it is
ExportKeepingKeyword(stmt) == [stmt EXCEPT !.exported = TRUE]
\* text.replace(/^(const|let|var)/, 'export const'): a text that begins with
\* export does not begin with a declaration keyword and is left alone
ExportVariableText(stmt) ==
  IF stmt.exported THEN stmt ELSE [stmt EXCEPT !.exported = TRUE, !.kw = "const"]

\* the content extractTypes gives the types file
TypesContent(typeCandidates, stmts) ==
  Module(<<>>, [i \in 1..Len(typeCandidates) |->
                  ExportTypeText(StmtById(stmts, typeCandidates[i].node))])

\* the removal stopping after the first type candidate
RemoveFirstTypeNode(stmts, typeCandidates) ==
  IF typeCandidates = <<>> THEN stmts
  ELSE SelectSeq(stmts, LAMBDA s : s.id # typeCandidates[1].node)

\* extractTypes: candidate.node.remove() for every type candidate
RemoveTypeNodes(stmts, typeCandidates) ==
  SelectSeq(stmts, LAMBDA s : s.id \notin {typeCandidates[i].node : i \in 1..Len(typeCandidates)})

\* sourceFile.getImportDeclaration(moduleSpecifier): index of the first
\* import of that specifier, 0 when there is none
ImportIndex(imports, moduleSpecifier) ==
  IF \E i \in 1..Len(imports) : imports[i].spec = moduleSpecifier
  THEN CHOOSE i \in 1..Len(imports) :
         /\ imports[i].spec = moduleSpecifier
         /\ \A j \in 1..(i - 1) : imports[j].spec # moduleSpecifier
  ELSE 0

RemoveAt(s, i) == SubSeq(s, 1, i - 1) \o SubSeq(s, i + 1, Len(s))

\* the rewrite without the lookup of an existing import
addNamedImport(imports, moduleSpecifier, names) ==
  Append(imports, ImportDecl(moduleSpecifier, names, "", FALSE))

\* TSXRefactorer.addOrUpdateNamedImport, on the import list of the origin
addOrUpdateNamedImport(imports, moduleSpecifier, names) ==
  LET i == ImportIndex(imports, moduleSpecifier)
  IN IF i # 0
     THEN LET mergedNames == Dedup(imports[i].names \o names)
          IN Append(RemoveAt(imports, i), ImportDecl(moduleSpecifier, mergedNames, "", FALSE))
     ELSE Append(imports, ImportDecl(moduleSpecifier, names, "", FALSE))

\* the forEach of extractUtilities: copy each candidate's statement and
\* remove it; a candidate whose statement an earlier iteration removed is a
\* forgotten node and asKindOrThrow raises (threw)
RECURSIVE CollectUtilities(_, _)
CollectUtilities(utilCandidates, acc) ==
  IF utilCandidates = <<>> THEN acc
  ELSE LET c == Head(utilCandidates)
       IN IF c.node \notin StmtIds(acc.stmts)
          THEN [acc EXCEPT !.threw = TRUE]
          ELSE CollectUtilities(Tail(utilCandidates),
                 [acc EXCEPT !.texts = Append(@, ExportVariableText(StmtById(acc.stmts, c.node))),
                             !.names = Append(@, c.name),
                             !.stmts = RemoveById(@, c.node)])

\* getExportedTypeNames: exported interfaces, then exported type aliases, of
\* the types file when the project holds it
getExportedTypeNames(typesFile) ==
  IF ~typesFile.exists THEN <<>>
  ELSE LET ex(k) == SelectSeq(typesFile.stmts, LAMBDA s : s.kind = k /\ s.exported)
           all == ex("interface") \o ex("alias")
       IN [i \in 1..Len(all) |-> all[i].name]

\* the type-only import a utilities file starts with
TypeImports(typeNames, utilsPath, typesPath) ==
  IF typeNames # <<>>
  THEN <<ImportDecl(toModuleSpecifier(utilsPath, typesPath), typeNames, "", TRUE)>>
  ELSE <<>>

\* ================================================================= state
VARIABLES
  disk,        \* storage: [origin, types, utils], each a module or NoFile
  cfg,         \* what stays the same from run to run: [pattern, covered]
  runs,        \* script runs started so far
  pc,          \* where the running script is; "idle" between runs
  opts,        \* options of the current (or last) run
  mem,         \* this.sourceFile: the origin module in memory
  proj,        \* the project's in-memory copies of the target files
  candidates,  \* result of analyzeFile of the current (or last) run
  work,        \* locals of the extract method that is running
  outcome,     \* "none", "running", "completed" or "failed"
  faults,      \* what went wrong in the current (or last) run
  pruned,      \* names declared by the statements this run removed from the origin
  added,       \* per target, the names this run's import rewrites were given,
               \* with the names of the binding found at the first rewrite
  startDisk,   \* storage when the current (or last) run started
  prev,        \* options, outcome and candidates of the run before
  everSaved,   \* per target, every declared name a run has saved there
  typeDisk,    \* storage as analyze-types sees it: file id -> file
  files,       \* the paths main hands to processAllFiles, as file ids
  typePc,      \* where analyze-types is; "off" when it is not the script run
  fileIndex,   \* position in the list of the file processFile is working on
  sourceFile,  \* processFile's sourceFile: the declarations in memory
  totalFixes,  \* processFile's totalFixes
  typeStart,   \* typeDisk when analyze-types started
  call,        \* a function of the scripts about to be called, with its arguments
  returned,    \* what the call returned
  lintDisk,    \* storage as fix-lint sees it: file id -> file
  lintProject, \* the source files fix-lint's project holds in memory
  lintPc,      \* where fix-lint is; "off" when it is not the script run
  lintIndex,   \* position in the list of the file processFiles is working on
  lintLog      \* what fix-lint has printed: one entry per step it went through

extractionVars == <<disk, cfg, runs, pc, opts, mem, proj, candidates, work, outcome,
                    faults, pruned, added, startDisk, prev, everSaved>>
reconcilerVars == <<typeDisk, files, typePc, fileIndex, sourceFile, totalFixes, typeStart>>
callVars == <<call, returned>>
lintVars == <<lintDisk, lintProject, lintPc, lintIndex, lintLog>>
vars == <<extractionVars, reconcilerVars, callVars, lintVars>>

NoCall == [fn |-> "none"]

\* thresholds a run may be given (--min-variable-lines)
MinVariableLinesChoices == {DEFAULT_MIN_VARIABLE_LINES, 5}
\* name patterns a run may be given (--util-pattern, --helper-pattern)
PatternChoices == {DEFAULT_UTIL_PATTERN, {"validate", "get"}}

NoWork == [texts |-> <<>>, names |-> <<>>, comp |-> <<0, 0>>]
NoOpts == [pass |-> "none", minFunctionLines |-> 0, minVariableLines |-> 0]
NoProj == [types |-> NoFile, utils |-> NoFile]
NoNames == [types |-> {}, utils |-> {}]

Init ==
  /\ disk \in {[origin |-> o, types |-> NoFile, utils |-> NoFile] : o \in Origins \cup {NoFile}}
  /\ cfg \in {[pattern |-> p, covered |-> c] : p \in PatternChoices, c \in BOOLEAN}
  /\ runs = 0
  /\ pc = "idle"
  /\ opts = NoOpts
  /\ mem = NoFile
  /\ proj = NoProj
  /\ candidates = <<>>
  /\ work = NoWork
  /\ outcome = "none"
  /\ faults = {}
  /\ pruned = {}
  /\ added = NoNames
  /\ startDisk = disk
  /\ prev = [opts |-> NoOpts, outcome |-> "none", candidates |-> <<>>]
  /\ everSaved = NoNames
  /\ typeDisk = <<>>
  /\ files = <<>>
  /\ typePc = "off"
  /\ fileIndex = 0
  /\ sourceFile = <<>>
  /\ totalFixes = 0
  /\ typeStart = <<>>
  /\ call = NoCall
  /\ returned = NoCall
  /\ lintDisk = <<>>
  /\ lintProject = <<>>
  /\ lintPc = "off"
  /\ lintIndex = 0
  /\ lintLog = <<>>

\* new Project({tsConfigFilePath}) and addSourceFileAtPath(options.targetFile):
\* the project holds the files the tsconfig covers, and the origin
LoadProject ==
  /\ pc = "idle"
  /\ runs < MaxRuns
  /\ disk.origin.exists
  /\ runs' = runs + 1
  /\ mem' = disk.origin
  /\ proj' = IF cfg.covered THEN [types |-> disk.types, utils |-> disk.utils] ELSE NoProj
  /\ candidates' = <<>>
  /\ work' = NoWork
  /\ outcome' = "running"
  /\ faults' = {}
  /\ pruned' = {}
  /\ added' = NoNames
  /\ startDisk' = disk
  /\ prev' = [opts |-> opts, outcome |-> outcome, candidates |-> candidates]
  /\ UNCHANGED <<reconcilerVars, callVars, lintVars, disk, cfg, everSaved>>

\* the process ends: nothing in memory survives
EndRun(result) ==
  /\ pc' = "idle"
  /\ outcome' = result
  /\ mem' = NoFile
  /\ proj' = NoProj
  /\ work' = NoWork

\* an exception leaves the method and main; main().catch(console.error)
Raise(fault) ==
  /\ EndRun("failed")
  /\ faults' = faults \cup {fault}
  /\ UNCHANGED <<reconcilerVars, callVars, lintVars, disk, cfg, runs, opts, candidates, pruned, added, startDisk, prev, everSaved>>

\* addSourceFileAtPath(options.targetFile) raises for a path with no file:
\* the constructor, and main with it, end before the first step
LoadProjectFails(pass, minFunctionLines, minVariableLines) ==
  /\ pc = "idle"
  /\ runs < MaxRuns
  /\ ~disk.origin.exists
  /\ runs' = runs + 1
  /\ opts' = [pass |-> pass, minFunctionLines |-> minFunctionLines,
              minVariableLines |-> minVariableLines]
  /\ candidates' = <<>>
  /\ pruned' = {}
  /\ added' = NoNames
  /\ startDisk' = disk
  /\ prev' = [opts |-> opts, outcome |-> outcome, candidates |-> candidates]
  /\ EndRun("failed")
  /\ faults' = {"originMissing"}
  /\ UNCHANGED <<reconcilerVars, callVars, lintVars, disk, cfg, everSaved>>

NamesOfBinding(imports, spec) ==
  IF ImportIndex(imports, spec) = 0 THEN {}
  ELSE SeqToSet(imports[ImportIndex(imports, spec)].names)

\* ------------------------------------------------ refactor-tsx.ts main()
StartTopLevel ==
  /\ LoadProject
  /\ \E v \in MinVariableLinesChoices :
       opts' = [pass |-> "top", minFunctionLines |-> DEFAULT_MIN_FUNCTION_LINES,
                minVariableLines |-> v]
  /\ pc' = "analyze"

StartTopLevelFails ==
  \E v \in MinVariableLinesChoices :
    LoadProjectFails("top", DEFAULT_MIN_FUNCTION_LINES, v)

AnalyzeFile ==
  /\ pc = "analyze"
  /\ candidates' = analyzeFile(mem.stmts, opts.minFunctionLines, opts.minVariableLines)
  /\ pc' = "extractTypes"
  /\ UNCHANGED <<reconcilerVars, callVars, lintVars, disk, cfg, runs, opts, mem, proj, work, outcome, faults, pruned,
                 added, startDisk, prev, everSaved>>

\* the early return preceded by a write of an empty types file
ExtractTypesSkipWritesEmpty ==
  /\ pc = "extractTypes"
  /\ TypeCandidates(candidates) = <<>>
  /\ disk' = [disk EXCEPT !.types = [disk.origin EXCEPT !.imports = <<>>, !.stmts = <<>>]]
  /\ pc' = "extractUtilities"
  /\ UNCHANGED <<reconcilerVars, callVars, lintVars, cfg, runs, opts, mem, proj, candidates, work, outcome, faults,
                 pruned, added, startDisk, prev, everSaved>>

\* extractTypes, lines 196-203
ExtractTypesSkip ==
  /\ pc = "extractTypes"
  /\ TypeCandidates(candidates) = <<>>
  /\ pc' = "extractUtilities"
  /\ UNCHANGED <<reconcilerVars, callVars, lintVars, disk, cfg, runs, opts, mem, proj, candidates, work, outcome, faults,
                 pruned, added, startDisk, prev, everSaved>>

\* extractTypes, lines 205-225: createSourceFile and replaceWithText
ExtractTypesWrite ==
  /\ pc = "extractTypes"
  /\ TypeCandidates(candidates) # <<>>
  /\ proj' = [proj EXCEPT !.types = TypesContent(TypeCandidates(candidates), mem.stmts)]
  /\ pc' = "typesRemove"
  /\ UNCHANGED <<reconcilerVars, callVars, lintVars, disk, cfg, runs, opts, mem, candidates, work, outcome, faults,
                 pruned, added, startDisk, prev, everSaved>>

\* the removal followed at once by a save of the origin
ExtractTypesRemoveAndSave ==
  /\ pc = "typesRemove"
  /\ mem' = [mem EXCEPT !.stmts = RemoveTypeNodes(@, TypeCandidates(candidates))]
  /\ disk' = [disk EXCEPT !.origin = mem']
  /\ pruned' = pruned \cup UNION {DeclaredNames(mem.stmts[i]) :
                 i \in {k \in 1..Len(mem.stmts) : mem.stmts[k].id \notin StmtIds(mem'.stmts)}}
  /\ pc' = "typesImport"
  /\ UNCHANGED <<reconcilerVars, callVars, lintVars, cfg, runs, opts, proj, candidates, work, outcome, faults,
                 added, startDisk, prev, everSaved>>

\* extractTypes, lines 231-236
ExtractTypesRemove ==
  /\ pc = "typesRemove"
  /\ mem' = [mem EXCEPT !.stmts = RemoveTypeNodes(@, TypeCandidates(candidates))]
  /\ pruned' = pruned \cup UNION {DeclaredNames(mem.stmts[i]) :
                 i \in {k \in 1..Len(mem.stmts) : mem.stmts[k].id \notin StmtIds(mem'.stmts)}}
  /\ pc' = "typesImport"
  /\ UNCHANGED <<reconcilerVars, callVars, lintVars, disk, cfg, runs, opts, proj, candidates, work, outcome, faults,
                 added, startDisk, prev, everSaved>>

\* extractTypes, lines 238-243
ExtractTypesImport ==
  /\ pc = "typesImport"
  /\ LET typeNames == CandidateNames(TypeCandidates(candidates))
     IN /\ mem' = [mem EXCEPT !.imports = addOrUpdateNamedImport(@, TypesSpecifier, typeNames)]
        /\ added' = [added EXCEPT !.types = @ \cup NamesOfBinding(mem.imports, TypesSpecifier)
                                              \cup SeqToSet(typeNames)]
  /\ pc' = "typesSave"
  /\ UNCHANGED <<reconcilerVars, callVars, lintVars, disk, cfg, runs, opts, proj, candidates, work, outcome, faults,
                 pruned, startDisk, prev, everSaved>>

\* extractTypes, line 245: typesFile.saveSync() succeeds
ExtractTypesSave ==
  /\ pc = "typesSave"
  /\ disk' = [disk EXCEPT !.types = proj.types]
  /\ everSaved' = [everSaved EXCEPT !.types = @ \cup ExportedNames(proj.types)]
  /\ pc' = "extractUtilities"
  /\ UNCHANGED <<reconcilerVars, callVars, lintVars, cfg, runs, opts, mem, proj, candidates, work, outcome, faults,
                 pruned, added, startDisk, prev>>

\* extractTypes, line 245: typesFile.saveSync() raises
ExtractTypesSaveFails ==
  /\ pc = "typesSave"
  /\ Raise("saveTypes")

\* extractUtilities, lines 253-260
ExtractUtilitiesSkip ==
  /\ pc = "extractUtilities"
  /\ UtilCandidates(candidates, cfg.pattern) = <<>>
  /\ pc' = "save"
  /\ UNCHANGED <<reconcilerVars, callVars, lintVars, disk, cfg, runs, opts, mem, proj, candidates, work, outcome, faults,
                 pruned, added, startDisk, prev, everSaved>>

\* extractUtilities, lines 262-288: createSourceFile, then the forEach that
\* copies and removes the candidates' statements
ExtractUtilitiesCollect ==
  /\ pc = "extractUtilities"
  /\ UtilCandidates(candidates, cfg.pattern) # <<>>
  /\ LET r == CollectUtilities(UtilCandidates(candidates, cfg.pattern),
                [texts |-> <<>>, names |-> <<>>, stmts |-> mem.stmts, threw |-> FALSE])
     IN IF r.threw
        THEN Raise("forgottenNode")
        ELSE /\ proj' = [proj EXCEPT !.utils = Module(<<>>, <<>>)]
             /\ work' = [work EXCEPT !.texts = r.texts, !.names = r.names]
             /\ mem' = [mem EXCEPT !.stmts = r.stmts]
             /\ pruned' = pruned \cup UNION {DeclaredNames(mem.stmts[i]) :
                            i \in {k \in 1..Len(mem.stmts) : mem.stmts[k].id \notin StmtIds(r.stmts)}}
             /\ pc' = "utilsWrite"
             /\ UNCHANGED <<reconcilerVars, callVars, lintVars, disk, cfg, runs, opts, candidates, outcome, faults,
                            added, startDisk, prev, everSaved>>

\* extractUtilities, lines 290-306
ExtractUtilitiesWrite ==
  /\ pc = "utilsWrite"
  /\ proj' = [proj EXCEPT !.utils =
                Module(TypeImports(getExportedTypeNames(proj.types), UtilsFile, TypesFile),
                       work.texts)]
  /\ pc' = "utilsImport"
  /\ UNCHANGED <<reconcilerVars, callVars, lintVars, disk, cfg, runs, opts, mem, candidates, work, outcome, faults,
                 pruned, added, startDisk, prev, everSaved>>

\* extractUtilities, lines 308-312
ExtractUtilitiesImport ==
  /\ pc = "utilsImport"
  /\ mem' = [mem EXCEPT !.imports =
               IF work.names # <<>> THEN addOrUpdateNamedImport(@, UtilsSpecifier, work.names)
               ELSE @]
  /\ added' = [added EXCEPT !.utils = @ \cup NamesOfBinding(mem.imports, UtilsSpecifier)
                                        \cup SeqToSet(work.names)]
  /\ pc' = "utilsSave"
  /\ UNCHANGED <<reconcilerVars, callVars, lintVars, disk, cfg, runs, opts, proj, candidates, work, outcome, faults,
                 pruned, startDisk, prev, everSaved>>

\* extractUtilities, line 314: utilsFile.saveSync() succeeds
ExtractUtilitiesSave ==
  /\ pc = "utilsSave"
  /\ disk' = [disk EXCEPT !.utils = proj.utils]
  /\ everSaved' = [everSaved EXCEPT !.utils = @ \cup ExportedNames(proj.utils)]
  /\ pc' = "save"
  /\ UNCHANGED <<reconcilerVars, callVars, lintVars, cfg, runs, opts, mem, proj, candidates, work, outcome, faults,
                 pruned, added, startDisk, prev>>

\* the failure of utilsFile.saveSync() caught and ignored
ExtractUtilitiesSaveSwallowed ==
  /\ pc = "utilsSave"
  /\ faults' = faults \cup {"saveUtils"}
  /\ pc' = "save"
  /\ UNCHANGED <<reconcilerVars, callVars, lintVars, disk, cfg, runs, opts, mem, proj, candidates, work, outcome,
                 pruned, added, startDisk, prev, everSaved>>

\* extractUtilities, line 314: utilsFile.saveSync() raises
ExtractUtilitiesSaveFails ==
  /\ pc = "utilsSave"
  /\ Raise("saveUtils")

\* TSXRefactorer.save: this.sourceFile.saveSync()
Save ==
  /\ pc = "save"
  /\ disk' = [disk EXCEPT !.origin = mem]
  /\ EndRun("completed")
  /\ UNCHANGED <<reconcilerVars, callVars, lintVars, cfg, runs, opts, candidates, faults, pruned, added, startDisk,
                 prev, everSaved>>

TopLevelPass ==
  \/ StartTopLevel
  \/ StartTopLevelFails
  \/ AnalyzeFile
  \/ ExtractTypesSkip
  \/ ExtractTypesWrite
  \/ ExtractTypesRemove
  \/ ExtractTypesImport
  \/ ExtractTypesSave
  \/ ExtractTypesSaveFails
  \/ ExtractUtilitiesSkip
  \/ ExtractUtilitiesCollect
  \/ ExtractUtilitiesWrite
  \/ ExtractUtilitiesImport
  \/ ExtractUtilitiesSave
  \/ ExtractUtilitiesSaveFails
  \/ Save

\* ================================================ refactor-tsx-pass2.ts
\* sourceFile.getVariableDeclarations().find(decl => initializer is an arrow
\* function): <<statement id, declaration index>> of the first one, <<0, 0>>
\* when there is none
FindComponent(stmts) ==
  LET all == Flatten([i \in 1..Len(stmts) |->
                        IF stmts[i].kind = "var"
                        THEN [j \in 1..Len(stmts[i].decls) |-> <<stmts[i].id, j>>]
                        ELSE <<>>])
      arrows == SelectSeq(all, LAMBDA c : IsArrow(StmtById(stmts, c[1]).decls[c[2]]))
  IN IF arrows = <<>> THEN <<0, 0>> ELSE arrows[1]

ComponentDecl(stmts, comp) == StmtById(stmts, comp[1]).decls[comp[2]]

\* lines 118-128: the body of the component, when it is a block
HasBlockBody(stmts, comp) == comp # <<0, 0>> /\ ComponentDecl(stmts, comp).init = "arrowBlock"

\* the collection without the name test
HelperFunctionsAnyName(body, pattern) ==
  Flatten([i \in 1..Len(body) |->
            IF body[i].kind = "var"
            THEN LET js == SelectSeq([j \in 1..Len(body[i].decls) |-> j],
                             LAMBDA j : IsArrow(body[i].decls[j]))
                 IN [k \in 1..Len(js) |-> [name |-> body[i].decls[js[k]].name, text |-> body[i]]]
            ELSE <<>>])

\* lines 137-158: one entry (name, statement text) per arrow-function
\* declaration of the block whose name the pattern accepts
HelperFunctions(body, pattern) ==
  Flatten([i \in 1..Len(body) |->
            IF body[i].kind = "var"
            THEN LET js == SelectSeq([j \in 1..Len(body[i].decls) |-> j],
                             LAMBDA j : /\ IsArrow(body[i].decls[j])
                                        /\ PatternTest(pattern, body[i].decls[j].name))
                 IN [k \in 1..Len(js) |-> [name |-> body[i].decls[js[k]].name, text |-> body[i]]]
            ELSE <<>>])

\* func.text.replace(/^(\s*)(const|let|var)/, '$1export const')
ExportHelperText(stmt) ==
  IF stmt.exported THEN stmt ELSE [stmt EXCEPT !.exported = TRUE, !.kw = "const"]

\* lines 165-193: the text of the existing utilities file when the project
\* holds it, else '', followed by the exported helpers
AppendedUtilsContent(existingUtils, helperFunctions) ==
  LET exportedFunctions == [i \in 1..Len(helperFunctions) |-> ExportHelperText(helperFunctions[i].text)]
  IN IF existingUtils.exists
     THEN Module(existingUtils.imports, existingUtils.stmts \o exportedFunctions)
     ELSE Module(<<>>, exportedFunctions)

\* lines 202-212, one statement: the index of the first declaration whose
\* name was extracted (0 when none); the statement is removed there, and
\* reading the name of a later declaration of the removed statement raises
FirstExtracted(stmt, functionNames) ==
  IF stmt.kind # "var" \/ ~\E j \in 1..Len(stmt.decls) : stmt.decls[j].name \in functionNames
  THEN 0
  ELSE CHOOSE j \in 1..Len(stmt.decls) :
         /\ stmt.decls[j].name \in functionNames
         /\ \A k \in 1..(j - 1) : stmt.decls[k].name \notin functionNames

\* lines 202-212: the statements left in the block, and whether the loop raised
RECURSIVE RemoveHelpers(_, _, _)
RemoveHelpers(statements, functionNames, acc) ==
  IF statements = <<>> THEN acc
  ELSE LET stmt == Head(statements)
           j == FirstExtracted(stmt, functionNames)
       IN IF j = 0
          THEN RemoveHelpers(Tail(statements), functionNames,
                             [acc EXCEPT !.kept = Append(@, stmt)])
          ELSE IF j < Len(stmt.decls)
          THEN [acc EXCEPT !.kept = @ \o Tail(statements), !.threw = TRUE]
          ELSE RemoveHelpers(Tail(statements), functionNames, acc)

\* the origin's statements with the component's body replaced
WithBody(stmts, comp, body) ==
  [i \in 1..Len(stmts) |->
     IF stmts[i].id = comp[1] THEN [stmts[i] EXCEPT !.decls[comp[2]].body = body]
     ELSE stmts[i]]

\* lines 214-230: the import of the utilities module, merged or added
MergeHelperImport(imports, moduleSpecifier, functionNames) ==
  LET i == ImportIndex(imports, moduleSpecifier)
  IN IF i # 0
     THEN LET newImports == Dedup(imports[i].names \o functionNames)
          IN Append(RemoveAt(imports, i), ImportDecl(moduleSpecifier, newImports, "", FALSE))
     ELSE Append(imports, ImportDecl(moduleSpecifier, functionNames, "", FALSE))

\* ------------------------------------------ refactor-tsx-pass2.ts main()
StartNested ==
  /\ LoadProject
  /\ opts' = [pass |-> "nested", minFunctionLines |-> 0, minVariableLines |-> 0]
  /\ pc' = "findHelpers"

StartNestedFails ==
  LoadProjectFails("nested", 0, 0)

FoundHelpers ==
  LET comp == FindComponent(mem.stmts)
  IN IF HasBlockBody(mem.stmts, comp)
     THEN HelperFunctions(ComponentDecl(mem.stmts, comp).body, cfg.pattern)
     ELSE <<>>

\* the early return taken as a reason to look again
NestedSkipLooksAgain ==
  /\ pc = "findHelpers"
  /\ FoundHelpers = <<>>
  /\ UNCHANGED vars

\* extractHelperFunctions returns early: lines 113-116, 119-122, 125-128, 160-163
NestedSkip ==
  /\ pc = "findHelpers"
  /\ FoundHelpers = <<>>
  /\ pc' = "finalSave"
  /\ UNCHANGED <<reconcilerVars, callVars, lintVars, disk, cfg, runs, opts, mem, proj, candidates, work, outcome, faults,
                 pruned, added, startDisk, prev, everSaved>>

\* extractHelperFunctions, lines 108-158
NestedCollect ==
  /\ pc = "findHelpers"
  /\ FoundHelpers # <<>>
  /\ work' = [texts |-> FoundHelpers,
              names |-> [i \in 1..Len(FoundHelpers) |-> FoundHelpers[i].name],
              comp |-> FindComponent(mem.stmts)]
  /\ pc' = "writeUtils"
  /\ UNCHANGED <<reconcilerVars, callVars, lintVars, disk, cfg, runs, opts, mem, proj, candidates, outcome, faults,
                 pruned, added, startDisk, prev, everSaved>>

\* extractHelperFunctions, lines 165-197: utilsFile.saveSync() succeeds
NestedWriteUtils ==
  /\ pc = "writeUtils"
  /\ LET content == AppendedUtilsContent(proj.utils, work.texts)
     IN /\ proj' = [proj EXCEPT !.utils = content]
        /\ disk' = [disk EXCEPT !.utils = content]
        /\ everSaved' = [everSaved EXCEPT !.utils = @ \cup ExportedNames(content)]
  /\ pc' = "removeHelpers"
  /\ UNCHANGED <<reconcilerVars, callVars, lintVars, cfg, runs, opts, mem, candidates, work, outcome, faults,
                 pruned, added, startDisk, prev>>

\* extractHelperFunctions, line 197: utilsFile.saveSync() raises
NestedWriteUtilsFails ==
  /\ pc = "writeUtils"
  /\ Raise("saveUtils")

\* extractHelperFunctions, lines 199-212
NestedRemove ==
  /\ pc = "removeHelpers"
  /\ LET body == ComponentDecl(mem.stmts, work.comp).body
         r == RemoveHelpers(body, SeqToSet(work.names), [kept |-> <<>>, threw |-> FALSE])
     IN IF r.threw
        THEN Raise("forgottenNode")
        ELSE /\ mem' = [mem EXCEPT !.stmts = WithBody(@, work.comp, r.kept)]
             /\ pruned' = pruned \cup UNION {DeclaredNames(body[i]) :
                            i \in {k \in 1..Len(body) : body[k].id \notin StmtIds(r.kept)}}
             /\ pc' = "nestedImport"
             /\ UNCHANGED <<reconcilerVars, callVars, lintVars, disk, cfg, runs, opts, proj, candidates, work, outcome,
                            faults, added, startDisk, prev, everSaved>>

\* extractHelperFunctions, lines 214-230
NestedImport ==
  /\ pc = "nestedImport"
  /\ mem' = [mem EXCEPT !.imports = MergeHelperImport(@, UtilsSpecifier, work.names)]
  /\ added' = [added EXCEPT !.utils = @ \cup NamesOfBinding(mem.imports, UtilsSpecifier)
                                        \cup SeqToSet(work.names)]
  /\ pc' = "nestedSaveOrigin"
  /\ UNCHANGED <<reconcilerVars, callVars, lintVars, disk, cfg, runs, opts, proj, candidates, work, outcome, faults,
                 pruned, startDisk, prev, everSaved>>

\* extractHelperFunctions, line 232: this.sourceFile.saveSync()
NestedSaveOrigin ==
  /\ pc = "nestedSaveOrigin"
  /\ disk' = [disk EXCEPT !.origin = mem]
  /\ pc' = "finalSave"
  /\ UNCHANGED <<reconcilerVars, callVars, lintVars, cfg, runs, opts, mem, proj, candidates, work, outcome, faults,
                 pruned, added, startDisk, prev, everSaved>>

\* TSXRefactorer2.save, called by main after extractHelperFunctions
NestedFinalSave ==
  /\ pc = "finalSave"
  /\ disk' = [disk EXCEPT !.origin = mem]
  /\ EndRun("completed")
  /\ UNCHANGED <<reconcilerVars, callVars, lintVars, cfg, runs, opts, candidates, faults, pruned, added, startDisk,
                 prev, everSaved>>

NestedPass ==
  \/ StartNested
  \/ StartNestedFails
  \/ NestedSkip
  \/ NestedCollect
  \/ NestedWriteUtils
  \/ NestedWriteUtilsFails
  \/ NestedRemove
  \/ NestedImport
  \/ NestedSaveOrigin
  \/ NestedFinalSave

Next == TopLevelPass \/ NestedPass

Spec == Init /\ [][Next]_vars

\* ================================================== analyze-types.ts
\* --------------------------------------------------------- type texts
\* the text a type renders as: what it says, and how many characters long
TypeText(t, len) == [t |-> t, len |-> len, chars |-> <<>>]
NoType == TypeText("", 0)
AnyType == TypeText("any", 3)
VoidType == TypeText("void", 4)
StringType == TypeText("string", 6)
\* a type that renders as n characters
LongType(n) == TypeText("Record", n)

\* typeText.length < 100
MaxTypeTextLength == 100

\* characters a string literal is made of: a letter, a single quote, a backslash
LiteralChars == {"a", "'", "\\"}

RECURSIVE SeqsUpTo(_, _)
SeqsUpTo(S, n) ==
  IF n = 0 THEN {<<>>}
  ELSE LET shorter == SeqsUpTo(S, n - 1)
       IN shorter \cup {Append(s, c) : s \in shorter, c \in S}

LiteralValues == SeqsUpTo(LiteralChars, MaxLiteralLen) \ {<<>>}

\* `'${literalValue}'`
LiteralTypeText(literalValue) ==
  [t |-> "literal", len |-> Len(literalValue) + 2,
   chars |-> <<"'">> \o literalValue \o <<"'">>]

\* the text of the type of a string-literal initializer, as the checker prints it
PrintedLiteralType(literalValue) == TypeText("literal", Len(literalValue) + 2)

\* ------------------------------------------------------- declarations
BaseDecl ==
  [kind |-> "", exported |-> FALSE, ret |-> NoType, inferredRet |-> NoType,
   params |-> <<>>, typeNode |-> NoType, initType |-> NoType, literal |-> FALSE,
   value |-> <<>>, declKind |-> "", raises |-> FALSE]

\* an interface or a type alias; raises: setIsExported raises on it
TypeItem(kind, exported, raises) ==
  [BaseDecl EXCEPT !.kind = kind, !.exported = exported, !.raises = raises]

\* a parameter: its type node, the type inferred for it, whether setType raises
Param(ann, inferred, raises) == [ann |-> ann, inferred |-> inferred, raises |-> raises]

\* a function declaration ("function") or a variable initialised with an arrow
\* function ("arrow"): return type node, inferred return type, parameters,
\* whether setReturnType raises
FuncItem(kind, ret, inferredRet, params, raises) ==
  [BaseDecl EXCEPT !.kind = kind, !.ret = ret, !.inferredRet = inferredRet,
                   !.params = params, !.raises = raises, !.declKind = "const"]

\* a variable with an initializer that is no arrow function: type node, type
\* of the initializer, whether setType raises
VarItem(declKind, typeNode, initType, raises) ==
  [BaseDecl EXCEPT !.kind = "var", !.declKind = declKind, !.typeNode = typeNode,
                   !.initType = initType, !.raises = raises]

\* a variable initialised with the string literal of the given value
LiteralItem(declKind, typeNode, literalValue, raises) ==
  [BaseDecl EXCEPT !.kind = "var", !.declKind = declKind, !.typeNode = typeNode,
                   !.initType = PrintedLiteralType(literalValue), !.literal = TRUE,
                   !.value = literalValue, !.raises = raises]

\* a file: whether it exists, whether its path includes '.types.ts', its
\* declarations in file order
TypeFile(typesPath, decls) == [exists |-> TRUE, typesPath |-> typesPath, decls |-> decls]
MissingFile == [exists |-> FALSE, typesPath |-> FALSE, decls |-> <<>>]

\* the files on storage; the string literal of file 5 has the given value
FilePool(literalValue) ==
  << \* 1: Dashboard.types.ts as the top-level pass could have left it
     TypeFile(TRUE, << TypeItem("alias", FALSE, FALSE),
                       TypeItem("interface", FALSE, FALSE),
                       TypeItem("interface", TRUE, FALSE) >>),
     \* 2: a types file where exporting the second interface raises
     TypeFile(TRUE, << TypeItem("interface", FALSE, FALSE),
                       TypeItem("interface", FALSE, TRUE),
                       FuncItem("arrow", NoType, LongType(99), <<>>, FALSE) >>),
     \* 3: Dashboard.utils.ts: inferred texts at the boundary, any and void
     TypeFile(FALSE, << FuncItem("arrow", NoType, LongType(99),
                                 <<Param(NoType, LongType(99), FALSE),
                                   Param(NoType, LongType(100), FALSE)>>, FALSE),
                        FuncItem("arrow", NoType, LongType(100),
                                 <<Param(NoType, AnyType, FALSE)>>, FALSE),
                        FuncItem("function", NoType, AnyType,
                                 <<Param(StringType, StringType, FALSE)>>, FALSE),
                        FuncItem("function", NoType, VoidType, <<>>, FALSE),
                        VarItem("const", AnyType, LongType(99), FALSE),
                        VarItem("let", AnyType, LongType(100), FALSE),
                        VarItem("let", AnyType, AnyType, FALSE) >>),
     \* 4: a file where setting types raises
     TypeFile(FALSE, << FuncItem("arrow", NoType, StringType,
                                 <<Param(NoType, StringType, TRUE),
                                   Param(NoType, StringType, FALSE)>>, TRUE),
                        FuncItem("function", NoType, StringType, <<>>, TRUE),
                        VarItem("const", AnyType, StringType, TRUE),
                        LiteralItem("const", StringType, <<"a">>, TRUE),
                        TypeItem("interface", FALSE, TRUE),
                        VarItem("let", AnyType, StringType, FALSE) >>),
     \* 5: Dashboard.tsx: string literals declared as string
     TypeFile(FALSE, << LiteralItem("const", StringType, literalValue, FALSE),
                        LiteralItem("let", StringType, literalValue, FALSE),
                        VarItem("const", StringType, StringType, FALSE),
                        LiteralItem("const", NoType, literalValue, FALSE) >>),
     \* 6: a file with nothing to fix
     TypeFile(FALSE, << FuncItem("function", StringType, StringType,
                                 <<Param(StringType, StringType, FALSE)>>, FALSE),
                        FuncItem("arrow", NoType, VoidType, <<>>, FALSE),
                        LiteralItem("const", LiteralTypeText(<<"a">>), <<"a">>, FALSE),
                        TypeItem("interface", FALSE, FALSE) >>),
     \* 7: a path with no file
     MissingFile >>

FileIds == 1..7

\* getDefaultFiles(): the types, utils and component files
DefaultFiles == <<1, 3, 5>>

\* the lists main can pass: up to MaxFiles paths
FileLists == SeqsUpTo(FileIds, MaxFiles)

\* ------------------------------------------------- the fixes, per file
\* typeText.length < 100, with <= in place of <
WithinLengthInclusive(typeText) == typeText.len <= MaxTypeTextLength
\* typeText.length < 100
WithinLength(typeText) == typeText.len < MaxTypeTextLength

\* addReturnTypes, lines 42-51 and 67-73: a return type is to be set
ReturnTypeWanted(decl) ==
  /\ decl.kind \in {"arrow", "function"}
  /\ decl.ret = NoType
  /\ decl.inferredRet.t # "void"
  /\ WithinLength(decl.inferredRet)

\* addReturnTypes: the declarations after it, and its fixCount
addReturnTypes(decls) ==
  [decls |-> [i \in 1..Len(decls) |->
                IF ReturnTypeWanted(decls[i]) /\ ~decls[i].raises
                THEN [decls[i] EXCEPT !.ret = decls[i].inferredRet]
                ELSE decls[i]],
   fixCount |-> Cardinality({i \in 1..Len(decls) :
                               ReturnTypeWanted(decls[i]) /\ ~decls[i].raises})]

\* addParameterTypes, lines 108-115: a parameter type is to be set
ParameterTypeWanted(param) ==
  /\ param.ann = NoType
  /\ param.inferred.t # "any"
  /\ WithinLength(param.inferred)

\* addParameterTypes: the declarations after it, and its fixCount
addParameterTypes(decls) ==
  [decls |-> [i \in 1..Len(decls) |->
                IF decls[i].kind \in {"arrow", "function"}
                THEN [decls[i] EXCEPT !.params =
                        [j \in 1..Len(decls[i].params) |->
                           LET param == decls[i].params[j]
                           IN IF ParameterTypeWanted(param) /\ ~param.raises
                              THEN [param EXCEPT !.ann = param.inferred]
                              ELSE param]]
                ELSE decls[i]],
   fixCount |-> SumSeq([i \in 1..Len(decls) |->
                          IF decls[i].kind \in {"arrow", "function"}
                          THEN Cardinality({j \in 1..Len(decls[i].params) :
                                 /\ ParameterTypeWanted(decls[i].params[j])
                                 /\ ~decls[i].params[j].raises})
                          ELSE 0])]

\* fixAnyTypes, lines 141-151: an explicit any is to be replaced
AnyReplacementWanted(decl) ==
  /\ decl.kind \in {"arrow", "var"}
  /\ decl.typeNode.t = "any"
  /\ decl.initType # NoType
  /\ decl.initType.t # "any"
  /\ WithinLength(decl.initType)

\* fixAnyTypes: the declarations after it, and its fixCount
fixAnyTypes(decls) ==
  [decls |-> [i \in 1..Len(decls) |->
                IF AnyReplacementWanted(decls[i]) /\ ~decls[i].raises
                THEN [decls[i] EXCEPT !.typeNode = decls[i].initType]
                ELSE decls[i]],
   fixCount |-> Cardinality({i \in 1..Len(decls) :
                               AnyReplacementWanted(decls[i]) /\ ~decls[i].raises})]

\* improveTypeSpecificity, lines 229-241: the declared string is to be narrowed
LiteralTypeWanted(decl) ==
  /\ decl.kind \in {"arrow", "var"}
  /\ decl.typeNode.t = "string"
  /\ decl.initType # NoType
  /\ decl.literal
  /\ decl.declKind = "const"

\* improveTypeSpecificity: the declarations after it, and its fixCount
improveTypeSpecificity(decls) ==
  [decls |-> [i \in 1..Len(decls) |->
                IF LiteralTypeWanted(decls[i]) /\ ~decls[i].raises
                THEN [decls[i] EXCEPT !.typeNode = LiteralTypeText(decls[i].value)]
                ELSE decls[i]],
   fixCount |-> Cardinality({i \in 1..Len(decls) :
                               LiteralTypeWanted(decls[i]) /\ ~decls[i].raises})]

\* [...interfaces, ...typeAliases]: positions of the interfaces in file order,
\* then of the type aliases
TypePositions(decls) ==
  SelectSeq([i \in 1..Len(decls) |-> i], LAMBDA i : decls[i].kind = "interface")
    \o SelectSeq([i \in 1..Len(decls) |-> i], LAMBDA i : decls[i].kind = "alias")

\* ensureTypeExports, lines 182-188: the loop over the types; setIsExported
\* is not guarded, so the first one that raises ends the loop
RECURSIVE ExportLoop(_, _)
ExportLoop(positions, acc) ==
  IF positions = <<>> THEN acc
  ELSE LET i == Head(positions)
       IN IF acc.decls[i].exported THEN ExportLoop(Tail(positions), acc)
          ELSE IF acc.decls[i].raises THEN [acc EXCEPT !.threw = TRUE]
          ELSE ExportLoop(Tail(positions),
                          [acc EXCEPT !.decls[i].exported = TRUE, !.fixCount = @ + 1])

\* ensureTypeExports: the declarations after it, its fixCount, whether it raised
ensureTypeExports(file) ==
  IF ~file.typesPath
  THEN [decls |-> file.decls, fixCount |-> 0, threw |-> FALSE]
  ELSE ExportLoop(TypePositions(file.decls),
                  [decls |-> file.decls, fixCount |-> 0, threw |-> FALSE])

\* ------------------------------------------------ analyze-types main()
\* the reconciler started alone: storage holds the pool, main was given a list
TypeInit ==
  /\ disk = [origin |-> NoFile, types |-> NoFile, utils |-> NoFile]
  /\ cfg = [pattern |-> DEFAULT_UTIL_PATTERN, covered |-> FALSE]
  /\ runs = 0
  /\ pc = "off"
  /\ opts = NoOpts
  /\ mem = NoFile
  /\ proj = NoProj
  /\ candidates = <<>>
  /\ work = NoWork
  /\ outcome = "none"
  /\ faults = {}
  /\ pruned = {}
  /\ added = NoNames
  /\ startDisk = disk
  /\ prev = [opts |-> NoOpts, outcome |-> "none", candidates |-> <<>>]
  /\ everSaved = NoNames
  /\ typeDisk \in {FilePool(v) : v \in LiteralValues}
  /\ files \in FileLists
  /\ typePc = "idle"
  /\ fileIndex = 0
  /\ sourceFile = <<>>
  /\ totalFixes = 0
  /\ typeStart = typeDisk
  /\ call = NoCall
  /\ returned = NoCall
  /\ lintDisk = <<>>
  /\ lintProject = <<>>
  /\ lintPc = "off"
  /\ lintIndex = 0
  /\ lintLog = <<>>

\* the file processFile is working on
CurrentFile == files[fileIndex]

\* main: processAllFiles(files); an empty list stands for the default files
ProcessAllFiles ==
  /\ typePc = "idle"
  /\ files' = IF files = <<>> THEN DefaultFiles ELSE files
  /\ fileIndex' = 1
  /\ typePc' = "processFile"
  /\ UNCHANGED <<extractionVars, callVars, lintVars, typeDisk, sourceFile, totalFixes, typeStart>>

\* processFile, lines 262-265: the file is not there
ProcessFileNotFound ==
  /\ typePc = "processFile"
  /\ fileIndex <= Len(files)
  /\ ~typeDisk[CurrentFile].exists
  /\ fileIndex' = fileIndex + 1
  /\ UNCHANGED <<extractionVars, callVars, lintVars, typeDisk, files, typePc, sourceFile, totalFixes, typeStart>>

\* processFile, lines 269-271
AddSourceFile ==
  /\ typePc = "processFile"
  /\ fileIndex <= Len(files)
  /\ typeDisk[CurrentFile].exists
  /\ sourceFile' = typeDisk[CurrentFile].decls
  /\ totalFixes' = 0
  /\ typePc' = "ensureTypeExports"
  /\ UNCHANGED <<extractionVars, callVars, lintVars, typeDisk, files, fileIndex, typeStart>>

\* processFile, line 275
EnsureTypeExports ==
  LET r == ensureTypeExports([typeDisk[CurrentFile] EXCEPT !.decls = sourceFile])
  IN /\ typePc = "ensureTypeExports"
     /\ ~r.threw
     /\ sourceFile' = r.decls
     /\ totalFixes' = totalFixes + r.fixCount
     /\ typePc' = "addReturnTypes"
     /\ UNCHANGED <<extractionVars, callVars, lintVars, typeDisk, files, fileIndex, typeStart>>

\* processFile, line 275: setIsExported raised; the exception leaves
\* processFile, the forEach of processAllFiles and main
EnsureTypeExportsRaises ==
  LET r == ensureTypeExports([typeDisk[CurrentFile] EXCEPT !.decls = sourceFile])
  IN /\ typePc = "ensureTypeExports"
     /\ r.threw
     /\ sourceFile' = r.decls
     /\ typePc' = "aborted"
     /\ UNCHANGED <<extractionVars, callVars, lintVars, typeDisk, files, fileIndex, totalFixes, typeStart>>

\* processFile, line 279
AddReturnTypes ==
  /\ typePc = "addReturnTypes"
  /\ sourceFile' = addReturnTypes(sourceFile).decls
  /\ totalFixes' = totalFixes + addReturnTypes(sourceFile).fixCount
  /\ typePc' = "addParameterTypes"
  /\ UNCHANGED <<extractionVars, callVars, lintVars, typeDisk, files, fileIndex, typeStart>>

\* processFile, line 283
AddParameterTypes ==
  /\ typePc = "addParameterTypes"
  /\ sourceFile' = addParameterTypes(sourceFile).decls
  /\ totalFixes' = totalFixes + addParameterTypes(sourceFile).fixCount
  /\ typePc' = "fixAnyTypes"
  /\ UNCHANGED <<extractionVars, callVars, lintVars, typeDisk, files, fileIndex, typeStart>>

\* processFile, line 287
FixAnyTypes ==
  /\ typePc = "fixAnyTypes"
  /\ sourceFile' = fixAnyTypes(sourceFile).decls
  /\ totalFixes' = totalFixes + fixAnyTypes(sourceFile).fixCount
  /\ typePc' = "improveTypeSpecificity"
  /\ UNCHANGED <<extractionVars, callVars, lintVars, typeDisk, files, fileIndex, typeStart>>

\* processFile, line 291
ImproveTypeSpecificity ==
  /\ typePc = "improveTypeSpecificity"
  /\ sourceFile' = improveTypeSpecificity(sourceFile).decls
  /\ totalFixes' = totalFixes + improveTypeSpecificity(sourceFile).fixCount
  /\ typePc' = "save"
  /\ UNCHANGED <<extractionVars, callVars, lintVars, typeDisk, files, fileIndex, typeStart>>

\* processFile, lines 293-301, totalFixes > 0: saveSync, then analyzeTypes
\* (which only reads); processAllFiles goes on to the next file
SaveFixes ==
  /\ typePc = "save"
  /\ totalFixes > 0
  /\ typeDisk' = [typeDisk EXCEPT ![CurrentFile].decls = sourceFile]
  /\ fileIndex' = fileIndex + 1
  /\ typePc' = "processFile"
  /\ UNCHANGED <<extractionVars, callVars, lintVars, files, sourceFile, totalFixes, typeStart>>

\* processFile, lines 293-301, totalFixes = 0: nothing is saved
NoFixes ==
  /\ typePc = "save"
  /\ totalFixes = 0
  /\ fileIndex' = fileIndex + 1
  /\ typePc' = "processFile"
  /\ UNCHANGED <<extractionVars, callVars, lintVars, typeDisk, files, sourceFile, totalFixes, typeStart>>

\* main: the list is done; generateTypeCoverageReport only reads and prints
GenerateTypeCoverageReport ==
  /\ typePc = "processFile"
  /\ fileIndex > Len(files)
  /\ typePc' = "done"
  /\ UNCHANGED <<extractionVars, callVars, lintVars, typeDisk, files, fileIndex, sourceFile, totalFixes, typeStart>>

TypeNext ==
  \/ ProcessAllFiles
  \/ ProcessFileNotFound
  \/ AddSourceFile
  \/ EnsureTypeExports
  \/ EnsureTypeExportsRaises
  \/ AddReturnTypes
  \/ AddParameterTypes
  \/ FixAnyTypes
  \/ ImproveTypeSpecificity
  \/ SaveFixes
  \/ NoFixes
  \/ GenerateTypeCoverageReport

TypeSpec == TypeInit /\ [][TypeNext]_vars


\* ------------------------------------------- the functions, called alone
\* the variables of the three scripts when none of them is the one run
ExtractionOff ==
  /\ disk = [origin |-> NoFile, types |-> NoFile, utils |-> NoFile]
  /\ cfg = [pattern |-> DEFAULT_UTIL_PATTERN, covered |-> FALSE]
  /\ runs = 0
  /\ pc = "off"
  /\ opts = NoOpts
  /\ mem = NoFile
  /\ proj = NoProj
  /\ candidates = <<>>
  /\ work = NoWork
  /\ outcome = "none"
  /\ faults = {}
  /\ pruned = {}
  /\ added = NoNames
  /\ startDisk = disk
  /\ prev = [opts |-> NoOpts, outcome |-> "none", candidates |-> <<>>]
  /\ everSaved = NoNames

ReconcilerOff ==
  /\ typeDisk = <<>>
  /\ files = <<>>
  /\ typePc = "off"
  /\ fileIndex = 0
  /\ sourceFile = <<>>
  /\ totalFixes = 0
  /\ typeStart = <<>>

LintOff ==
  /\ lintDisk = <<>>
  /\ lintProject = <<>>
  /\ lintPc = "off"
  /\ lintIndex = 0
  /\ lintLog = <<>>

\* directory names a path is made of; one of them begins with a dot
DirNames == {"src", ".config"}
Dirs == SeqsUpTo(DirNames, MaxDepth)

\* file names: with each kind of ending, and one that begins with a dot
FileNames ==
  { <<"Dashboard", "tsx">>, <<"Dashboard", "utils", "ts">>, <<"index", "js">>,
    <<"", "eslintrc", "js">>, <<"", "env">>, <<"README", "md">>, <<"Makefile">> }

Paths == {[dir |-> d, parts |-> n] : d \in Dirs, n \in FileNames}

ToModuleSpecifierCalls ==
  {[fn |-> "toModuleSpecifier", fromFile |-> f, toFile |-> t] :
     f \in {q \in Paths : q.parts = <<"Dashboard", "tsx">>}, t \in Paths}

\* import declarations an origin may hold when a rewrite starts: written by
\* an earlier run, or by hand with a default import or as `import type`
MergeImportPool ==
  { ImportDecl(ReactSpecifier, <<"useState">>, "React", FALSE),
    ImportDecl(TypesSpecifier, <<"User">>, "", FALSE),
    ImportDecl(TypesSpecifier, <<"User">>, "", TRUE),
    ImportDecl(UtilsSpecifier, <<"formatDate">>, "", FALSE),
    ImportDecl(UtilsSpecifier, <<"formatDate">>, "Utils", FALSE) }

MergeImportLists ==
  {l \in SeqsUpTo(MergeImportPool, MaxImports) :
     \A i, j \in 1..Len(l) : l[i].spec = l[j].spec => i = j}

\* a rewrite adds type names to the binding of the types module, or names
\* of functions to the binding of the utilities module
MergedNames(moduleSpecifier) ==
  IF moduleSpecifier = TypesSpecifier THEN {<<"Role">>, <<"User", "Role">>}
  ELSE {<<"getLabel">>, <<"formatDate", "getLabel">>}

ImportRewriteCalls(fn, moduleSpecifiers) ==
  {[fn |-> fn, imports |-> l, moduleSpecifier |-> m[1], names |-> m[2]] :
     l \in MergeImportLists,
     m \in UNION {{<<t, n>> : n \in MergedNames(t)} : t \in moduleSpecifiers}}

Calls ==
  ToModuleSpecifierCalls
    \cup ImportRewriteCalls("addOrUpdateNamedImport", {TypesSpecifier, UtilsSpecifier})
    \cup ImportRewriteCalls("mergeHelperImport", {UtilsSpecifier})

CallInit ==
  /\ ExtractionOff
  /\ ReconcilerOff
  /\ LintOff
  /\ call \in Calls
  /\ returned = NoCall

CallToModuleSpecifier ==
  /\ call.fn = "toModuleSpecifier"
  /\ returned = NoCall
  /\ returned' = [fn |-> call.fn, value |-> toModuleSpecifier(call.fromFile, call.toFile)]
  /\ UNCHANGED <<extractionVars, reconcilerVars, lintVars, call>>

\* the import rewrite of the top-level pass
CallAddOrUpdateNamedImport ==
  /\ call.fn = "addOrUpdateNamedImport"
  /\ returned = NoCall
  /\ returned' = [fn |-> call.fn,
                  value |-> addOrUpdateNamedImport(call.imports, call.moduleSpecifier,
                                                   call.names)]
  /\ UNCHANGED <<extractionVars, reconcilerVars, lintVars, call>>

\* the import rewrite of the nested pass
CallMergeHelperImport ==
  /\ call.fn = "mergeHelperImport"
  /\ returned = NoCall
  /\ returned' = [fn |-> call.fn,
                  value |-> MergeHelperImport(call.imports, call.moduleSpecifier,
                                              call.names)]
  /\ UNCHANGED <<extractionVars, reconcilerVars, lintVars, call>>

CallNext ==
  \/ CallToModuleSpecifier
  \/ CallAddOrUpdateNamedImport
  \/ CallMergeHelperImport

CallSpec == CallInit /\ [][CallNext]_vars


\* =========================================================== fix-lint.ts
\* module specifiers of packages, next to 'react'
AxiosSpecifier == [segs |-> <<>>, parts |-> <<"axios">>]
LodashSpecifier == [segs |-> <<>>, parts |-> <<"lodash">>]

\* the specifiers in the order localeCompare puts them in
LocaleOrder ==
  <<TypesSpecifier, UtilsSpecifier, AxiosSpecifier, LodashSpecifier, ReactSpecifier>>

LocaleRank(moduleSpecifier) ==
  CHOOSE i \in 1..Len(LocaleOrder) : LocaleOrder[i] = moduleSpecifier

\* aModule.localeCompare(bModule)
localeCompare(aModule, bModule) ==
  IF LocaleRank(aModule) < LocaleRank(bModule) THEN -1
  ELSE IF LocaleRank(aModule) > LocaleRank(bModule) THEN 1 ELSE 0

\* !module.startsWith('.')
IsExternal(moduleSpecifier) ==
  IF moduleSpecifier.segs # <<>> THEN moduleSpecifier.segs[1] \notin DotSegments
  ELSE ~(moduleSpecifier.parts[1] = "" /\ Len(moduleSpecifier.parts) > 1)

\* the comparator handed to imports.sort
CompareImports(a, b) ==
  IF a.spec = ReactSpecifier THEN -1
  ELSE IF b.spec = ReactSpecifier THEN 1
  ELSE IF IsExternal(a.spec) /\ ~IsExternal(b.spec) THEN -1
  ELSE IF ~IsExternal(a.spec) /\ IsExternal(b.spec) THEN 1
  ELSE localeCompare(a.spec, b.spec)

\* imp put into a sorted list, behind the elements that do not come after it
RECURSIVE InsertSorted(_, _)
InsertSorted(sorted, imp) ==
  IF sorted = <<>> THEN <<imp>>
  ELSE IF CompareImports(imp, Head(sorted)) < 0 THEN <<imp>> \o sorted
  ELSE <<Head(sorted)>> \o InsertSorted(Tail(sorted), imp)

\* imports.sort(comparator): a stable sort
RECURSIVE SortImports(_)
SortImports(imports) ==
  IF imports = <<>> THEN <<>>
  ELSE InsertSorted(SortImports(Front(imports)), Last(imports))

\* organizeImports up to its saveSync, on the source file in memory: every
\* import is removed, then each element of the sorted array is asked for its
\* structure to be inserted again; the array holds the nodes just removed,
\* and a removed node is forgotten: the first getStructure raises (threw)
organizeImports(file) ==
  LET sortedImports == SortImports(file.imports)
      removed == [file EXCEPT !.imports = <<>>]
  IN IF sortedImports # <<>>
     THEN [threw |-> TRUE, file |-> removed]
     ELSE [threw |-> FALSE, file |-> removed]

\* the files processFiles goes through: the component, its types, its utils
LintFiles == <<TargetFile, TypesFile, UtilsFile>>

\* import declarations a component file may start with
LintImportPool ==
  { ImportDecl(ReactSpecifier, <<"useState">>, "React", FALSE),
    ImportDecl(AxiosSpecifier, <<>>, "axios", FALSE),
    ImportDecl(LodashSpecifier, <<"debounce">>, "", FALSE),
    ImportDecl(TypesSpecifier, <<"User">>, "", FALSE),
    ImportDecl(UtilsSpecifier, <<"formatDate">>, "", FALSE) }

LintImportLists ==
  {l \in SeqsUpTo(LintImportPool, MaxImports) : NoDuplicates(l)}

LintStorages ==
  { <<component, types, utils>> :
      component \in {NoFile} \cup {Module(l, <<>>) : l \in LintImportLists},
      types \in {NoFile, Module(<<>>, <<>>)},
      utils \in {NoFile,
                 Module(<<ImportDecl(toModuleSpecifier(UtilsFile, TypesFile),
                                     <<"User">>, "", TRUE)>>, <<>>)} }

LintInit ==
  /\ ExtractionOff
  /\ ReconcilerOff
  /\ call = NoCall
  /\ returned = NoCall
  /\ lintDisk \in LintStorages
  /\ lintProject = [i \in 1..Len(LintFiles) |-> NoFile]
  /\ lintPc = "idle"
  /\ lintIndex = 0
  /\ lintLog = <<>>

LintSteps == <<"organizeImports", "fixCommonIssues", "formatFile", "fixLinting">>

\* console.log of a step: the step went through, or its warning
Logged(step, warned) ==
  Append(lintLog, [file |-> lintIndex, step |-> step, warned |-> warned])

\* files.forEach goes to the next file, or processFiles returns
NextLintFile ==
  IF lintIndex < Len(LintFiles)
  THEN lintIndex' = lintIndex + 1 /\ lintPc' = "processFile"
  ELSE lintIndex' = lintIndex /\ lintPc' = "done"

\* main: new LintFixer().processFiles()
ProcessFiles ==
  /\ lintPc = "idle"
  /\ lintIndex' = 1
  /\ lintPc' = "processFile"
  /\ UNCHANGED <<extractionVars, reconcilerVars, callVars, lintDisk, lintProject, lintLog>>

\* existsSync(file) is false: nothing is done for the file
LintFileMissing ==
  /\ lintPc = "processFile"
  /\ ~lintDisk[lintIndex].exists
  /\ NextLintFile
  /\ UNCHANGED <<extractionVars, reconcilerVars, callVars, lintDisk, lintProject, lintLog>>

\* step 1 with nothing raised: organizeImports ends with saveSync
OrganizeImports ==
  /\ lintPc = "processFile"
  /\ lintDisk[lintIndex].exists
  /\ LET organized == organizeImports(lintDisk[lintIndex])
     IN /\ ~organized.threw
        /\ lintProject' = [lintProject EXCEPT ![lintIndex] = organized.file]
        /\ lintDisk' = [lintDisk EXCEPT ![lintIndex] = organized.file]
  /\ lintLog' = Logged("organizeImports", FALSE)
  /\ lintPc' = "fixCommonIssues"
  /\ UNCHANGED <<extractionVars, reconcilerVars, callVars, lintIndex>>

\* step 1 raising with no try around it: the exception leaves processFiles
OrganizeImportsRaisesUncaught ==
  /\ lintPc = "processFile"
  /\ lintDisk[lintIndex].exists
  /\ LET organized == organizeImports(lintDisk[lintIndex])
     IN /\ organized.threw
        /\ lintProject' = [lintProject EXCEPT ![lintIndex] = organized.file]
  /\ lintLog' = Logged("organizeImports", TRUE)
  /\ lintPc' = "aborted"
  /\ UNCHANGED <<extractionVars, reconcilerVars, callVars, lintDisk, lintIndex>>

\* step 1 raising, caught by the try of processFiles: the source file stays
\* in the project as organizeImports left it, and nothing is saved
OrganizeImportsRaises ==
  /\ lintPc = "processFile"
  /\ lintDisk[lintIndex].exists
  /\ LET organized == organizeImports(lintDisk[lintIndex])
     IN /\ organized.threw
        /\ lintProject' = [lintProject EXCEPT ![lintIndex] = organized.file]
  /\ lintLog' = Logged("organizeImports", TRUE)
  /\ lintPc' = "fixCommonIssues"
  /\ UNCHANGED <<extractionVars, reconcilerVars, callVars, lintDisk, lintIndex>>

\* step 2: addSourceFileAtPath returns the source file the project already
\* holds, and saveSync writes it
FixCommonIssues ==
  /\ lintPc = "fixCommonIssues"
  /\ lintDisk' = [lintDisk EXCEPT ![lintIndex] = lintProject[lintIndex]]
  /\ lintLog' = Logged("fixCommonIssues", FALSE)
  /\ lintPc' = "formatFile"
  /\ UNCHANGED <<extractionVars, reconcilerVars, callVars, lintProject, lintIndex>>

\* step 2 with saveSync raising, caught by the try of processFiles
FixCommonIssuesRaises ==
  /\ lintPc = "fixCommonIssues"
  /\ lintLog' = Logged("fixCommonIssues", TRUE)
  /\ lintPc' = "formatFile"
  /\ UNCHANGED <<extractionVars, reconcilerVars, callVars, lintDisk, lintProject, lintIndex>>

\* step 3: prettier --write lays the text out again; the declarations of
\* the file stay what they are
FormatFile ==
  /\ lintPc = "formatFile"
  /\ lintLog' = Logged("formatFile", FALSE)
  /\ lintPc' = "fixLinting"
  /\ UNCHANGED <<extractionVars, reconcilerVars, callVars, lintDisk, lintProject, lintIndex>>

\* step 3 with execSync raising (prettier missing or exiting non-zero)
FormatFileWarns ==
  /\ lintPc = "formatFile"
  /\ lintLog' = Logged("formatFile", TRUE)
  /\ lintPc' = "fixLinting"
  /\ UNCHANGED <<extractionVars, reconcilerVars, callVars, lintDisk, lintProject, lintIndex>>

\* step 4: eslint --fix
FixLinting ==
  /\ lintPc = "fixLinting"
  /\ lintLog' = Logged("fixLinting", FALSE)
  /\ NextLintFile
  /\ UNCHANGED <<extractionVars, reconcilerVars, callVars, lintDisk, lintProject>>

\* step 4 with execSync raising (eslint exits non-zero on what it cannot fix)
FixLintingWarns ==
  /\ lintPc = "fixLinting"
  /\ lintLog' = Logged("fixLinting", TRUE)
  /\ NextLintFile
  /\ UNCHANGED <<extractionVars, reconcilerVars, callVars, lintDisk, lintProject>>

LintNext ==
  \/ ProcessFiles
  \/ LintFileMissing
  \/ OrganizeImports
  \/ OrganizeImportsRaises
  \/ FixCommonIssues
  \/ FixCommonIssuesRaises
  \/ FormatFile
  \/ FormatFileWarns
  \/ FixLinting
  \/ FixLintingWarns

LintSpec == LintInit /\ [][LintNext]_vars


\* ============================================================ properties
Targets == {"types", "utils"}
SpecifierOf(t) == IF t = "types" THEN TypesSpecifier ELSE UtilsSpecifier

RunCompleted == pc = "idle" /\ outcome = "completed"

\* the current run is a top-level run that has classified, and the run
\* before it was a completed top-level run with the same options
SecondIdenticalTopLevelRun ==
  /\ pc # "analyze"
  /\ opts.pass = "top"
  /\ prev.opts = opts
  /\ prev.outcome = "completed"

IsRelocatable(c) ==
  c.type \in {"interface", "type"} \/ (c.type = "variable" /\ PatternTest(cfg.pattern, c.name))

\* C1 as claimed: the classifier of the second of two identical top-level
\* runs returns zero candidates.
C1_SecondRunZeroCandidates ==
  SecondIdenticalTopLevelRun => candidates = <<>>

\* C1 amended: the classifier of the second run returns no type candidate and
\* no variable candidate that matches the utility pattern; what it returns
\* are candidates of the first run that the pass never relocates (functions
\* above the threshold, variables whose names do not match).
C1_SecondRunNoRelocatableCandidates ==
  SecondIdenticalTopLevelRun =>
    /\ TypeCandidates(candidates) = <<>>
    /\ UtilCandidates(candidates, cfg.pattern) = <<>>
    /\ SeqToSet(candidates) \subseteq {c \in SeqToSet(prev.candidates) : ~IsRelocatable(c)}

C1_Witness ==
  /\ SecondIdenticalTopLevelRun
  /\ pc = "extractTypes"
  /\ disk.types.exists
  /\ disk.utils.exists
  /\ candidates # <<>>

\* C2 as claimed: when a run completes, every name declared by a statement
\* the run removed from the origin is a name of an import binding of the origin.
C2_NoOrphanedReference ==
  RunCompleted =>
    \A n \in pruned : \E i \in 1..Len(disk.origin.imports) :
      n \in SeqToSet(disk.origin.imports[i].names)

\* C3 as claimed: once import rewrites have added names for a target, the
\* origin's binding for that target lists exactly the union of the added
\* names, and no name twice.
C3_ImportIsUnionWithoutDuplicates ==
  \A t \in Targets :
    (pc # "idle" /\ added[t] # {}) =>
      LET i == ImportIndex(mem.imports, SpecifierOf(t))
      IN /\ i # 0
         /\ SeqToSet(mem.imports[i].names) = added[t]
         /\ NoDuplicates(mem.imports[i].names)

OneImportPerSpecifier(mod) ==
  \A i, j \in 1..Len(mod.imports) : mod.imports[i].spec = mod.imports[j].spec => i = j

\* C4: the origin, in memory and on storage, never has two import
\* declarations of one module specifier.
C4_OneBindingPerTarget ==
  OneImportPerSpecifier(mem) /\ OneImportPerSpecifier(disk.origin)

\* a second run merged new names into the utilities binding the first run made
C4_Witness ==
  /\ RunCompleted
  /\ prev.outcome = "completed"
  /\ NamesOfBinding(startDisk.origin.imports, UtilsSpecifier) # {}
  /\ NamesOfBinding(startDisk.origin.imports, UtilsSpecifier) # added.utils
  /\ NamesOfBinding(disk.origin.imports, UtilsSpecifier) = added.utils

\* C5: a run in which saving a target module failed has failed (the error
\* left main) and leaves the stored origin as it was when the run started.
C5_SaveFailureKeepsOrigin ==
  (faults \cap {"saveTypes", "saveUtils"} # {}) =>
    /\ outcome = "failed"
    /\ disk.origin = startDisk.origin

\* saving the utilities file failed after the origin was pruned in memory
C5_Witness ==
  /\ pc = "idle"
  /\ "saveUtils" \in faults
  /\ pruned # {}
  /\ disk.origin = startDisk.origin

StoredExports == ExportedNames(disk.types) \cup ExportedNames(disk.utils)

ImportedNames(mod) == UNION {SeqToSet(mod.imports[i].names) : i \in 1..Len(mod.imports)}

\* the names of the candidates the running pass relocates
RelocatedNames ==
  IF opts.pass = "top"
  THEN {c.name : c \in {d \in SeqToSet(candidates) : IsRelocatable(d)}}
  ELSE SeqToSet(work.names)

\* C6 as claimed: a step that removes declarations from the origin module
\* runs only when the stored target modules export them and the origin's
\* import bindings already list the removed candidates.
C6_PruneAfterSaveAndImport ==
  [][(pc # "idle" /\ pruned' # pruned) =>
       /\ (pruned' \ pruned) \subseteq StoredExports
       /\ ((pruned' \ pruned) \cap RelocatedNames) \subseteq ImportedNames(mem)]_vars

\* C6 amended: the stored origin changes only when the stored target modules
\* export every name the run removed and the origin being saved imports the
\* removed candidates; the removal in memory comes earlier.
C6_OriginSavedAfterTargetAndImport ==
  [][(disk'.origin # disk.origin) =>
       /\ pruned' \subseteq StoredExports'
       /\ (pruned' \cap RelocatedNames) \subseteq ImportedNames(disk'.origin)]_vars

C6_Witness ==
  /\ RunCompleted
  /\ pruned # {}
  /\ disk.origin # startDisk.origin
  /\ pruned \subseteq StoredExports

\* C7 as claimed: a step of a top-level run never takes from a stored target
\* module a declaration that a run has saved to it (it merges, so what the
\* target held of the saved declarations before, it holds after).
C7_TargetKeepsEverySavedDeclaration ==
  [][opts'.pass = "top" =>
       \A t \in Targets :
         (everSaved[t] \subseteq ExportedNames(disk[t])) =>
           (everSaved'[t] \subseteq ExportedNames(disk'[t]))]_vars

\* C8 as claimed: after completed runs, every name of an origin import
\* binding for a target is exported by the module stored at that target.
C8_ImportedNamesAreExported ==
  (RunCompleted /\ prev.outcome # "failed") =>
    \A t \in Targets :
      NamesOfBinding(disk.origin.imports, SpecifierOf(t)) \subseteq ExportedNames(disk[t])

IsTypeStmt(s) == s.kind \in {"interface", "alias"}

\* every function and variable of the module is at or below its threshold
AllAtOrBelowThresholds(mod, o) ==
  \A i \in 1..Len(mod.stmts) :
    LET s == mod.stmts[i]
    IN /\ s.kind = "function" => s.lines <= o.minFunctionLines
       /\ s.kind = "var" => \A j \in 1..Len(s.decls) : s.decls[j].lines <= o.minVariableLines

\* a completed top-level run on an origin with type declarations and
\* nothing above the thresholds
C9_Case ==
  /\ RunCompleted
  /\ opts.pass = "top"
  /\ AllAtOrBelowThresholds(startDisk.origin, opts)
  /\ \E i \in 1..Len(startDisk.origin.stmts) : IsTypeStmt(startDisk.origin.stmts[i])

\* C9: such a run stores a types module made of exactly the origin's type
\* declarations, exported; the stored origin is the old one without them,
\* with one import of the types module that lists exactly their names.
C9_TypeSplit ==
  C9_Case =>
    LET before == startDisk.origin
        types == SelectSeq(before.stmts, IsTypeStmt)
        i == ImportIndex(disk.origin.imports, TypesSpecifier)
    IN /\ disk.types.exists
       /\ SeqToSet(disk.types.stmts) = {ExportTypeText(t) : t \in SeqToSet(types)}
       /\ Len(disk.types.stmts) = Len(types)
       /\ \A k \in 1..Len(disk.types.stmts) : disk.types.stmts[k].exported
       /\ disk.origin.stmts = SelectSeq(before.stmts, LAMBDA s : ~IsTypeStmt(s))
       /\ i # 0
       /\ SeqToSet(disk.origin.imports[i].names) = {t.name : t \in SeqToSet(types)}
       /\ OneImportPerSpecifier(disk.origin)
       /\ disk.utils = startDisk.utils

\* two types were split off and a function or a variable stayed
C9_Witness ==
  /\ C9_Case
  /\ Cardinality(ExportedNames(disk.types)) = 2
  /\ \E i \in 1..Len(disk.origin.stmts) : disk.origin.stmts[i].kind \in {"function", "var"}

IsSingleArrowBinding(s) == s.kind = "var" /\ Len(s.decls) = 1 /\ IsArrow(s.decls[1])

BodyOf(mod) == ComponentDecl(mod.stmts, FindComponent(mod.stmts)).body

MatchesPattern(s) == PatternTest(cfg.pattern, s.decls[1].name)

\* a completed nested run on a component whose body is made of single
\* function-valued bindings
C10_Case ==
  /\ RunCompleted
  /\ opts.pass = "nested"
  /\ HasBlockBody(startDisk.origin.stmts, FindComponent(startDisk.origin.stmts))
  /\ BodyOf(startDisk.origin) # <<>>
  /\ \A k \in 1..Len(BodyOf(startDisk.origin)) : IsSingleArrowBinding(BodyOf(startDisk.origin)[k])

\* C10: such a run appends to the utilities module exactly the bindings
\* whose names match the pattern, and the body keeps the other statements,
\* unchanged and in their order.
C10_NestedExtractsExactlyMatches ==
  C10_Case =>
    LET body == BodyOf(startDisk.origin)
        matching == SelectSeq(body, MatchesPattern)
        exported == [k \in 1..Len(matching) |-> ExportHelperText(matching[k])]
    IN /\ FindComponent(disk.origin.stmts) = FindComponent(startDisk.origin.stmts)
       /\ BodyOf(disk.origin) = SelectSeq(body, LAMBDA s : ~MatchesPattern(s))
       /\ \/ disk.utils.stmts = startDisk.utils.stmts \o exported
          \/ disk.utils.stmts = exported

\* validateForm and getRoleBadgeColor were extracted, unrelatedHelper stayed
C10_Witness ==
  /\ C10_Case
  /\ {"validateForm", "getRoleBadgeColor"} \subseteq ExportedNames(disk.utils)
  /\ Len(BodyOf(disk.origin)) = 1
  /\ DeclaredNames(BodyOf(disk.origin)[1]) = {"unrelatedHelper"}

\* ---------------------------------------------------------------- C11
\* the declarations nested directly in the block body of the component in
\* memory: name, whether a variable statement declares it, its initializer
NestedDeclarations ==
  LET comp == FindComponent(mem.stmts)
  IN IF ~HasBlockBody(mem.stmts, comp) THEN {}
     ELSE LET body == ComponentDecl(mem.stmts, comp).body
          IN UNION {{body[i].decls[j] : j \in 1..Len(body[i].decls)} :
                      i \in {k \in 1..Len(body) : body[k].kind = "var"}}

\* C11 as stated: when the nested pass has looked for helpers, a declaration
\* nested directly in the component's body is an extraction candidate if and
\* only if its name matches the pattern, whatever it is initialised with.
C11_CandidateIffNameMatches ==
  [][pc = "findHelpers" =>
       \A d \in NestedDeclarations :
          d.name \in SeqToSet(work'.names) <=> PatternTest(cfg.pattern, d.name)]_vars

\* C11 amended: when the nested pass has looked for helpers, a declaration
\* nested directly in the component's body is an extraction candidate if and
\* only if it is a variable declaration initialised with an arrow function
\* and its name matches the pattern; its line count plays no part.
C11_CandidateIffArrowAndNameMatches ==
  [][pc = "findHelpers" =>
       \A d \in NestedDeclarations :
          d.name \in SeqToSet(work'.names)
            <=> (d.init \in {"arrowBlock", "arrowExpr"} /\ PatternTest(cfg.pattern, d.name))]_vars

\* the nested pass collected a three-line helper and left a matching name
\* that is not an arrow function, and an arrow function that does not match
C11_Witness ==
  /\ pc = "writeUtils"
  /\ \E d \in NestedDeclarations :
       d.name \in SeqToSet(work.names) /\ d.lines < DEFAULT_MIN_VARIABLE_LINES
  /\ \E d \in NestedDeclarations :
       d.init = "value" /\ d.name \notin SeqToSet(work.names)
  /\ \E d \in NestedDeclarations :
       d.init = "arrowBlock" /\ ~PatternTest(cfg.pattern, d.name)

\* ---------------------------------------------------------------- C12
\* processFile is between loading a file and leaving it
InProcessFile ==
  typePc \in {"ensureTypeExports", "addReturnTypes", "addParameterTypes",
              "fixAnyTypes", "improveTypeSpecificity", "save", "aborted"}

\* the return types, parameter types and replacements of any that `after`
\* has and `before` has not
WrittenInferredTexts(before, after) ==
  UNION {   (IF after[i].ret # before[i].ret THEN {after[i].ret} ELSE {})
       \cup {after[i].params[j].ann : j \in {k \in 1..Len(after[i].params) :
                                        after[i].params[k].ann # before[i].params[k].ann}}
       \cup (IF before[i].typeNode.t = "any" /\ after[i].typeNode # before[i].typeNode
             THEN {after[i].typeNode} ELSE {})
         : i \in 1..Len(after)}

\* every inferred text analyze-types has written, in memory or on storage
AllWrittenInferredTexts ==
  UNION {WrittenInferredTexts(typeStart[f].decls, typeDisk[f].decls) : f \in FileIds}
    \cup (IF InProcessFile
          THEN WrittenInferredTexts(typeStart[CurrentFile].decls, sourceFile)
          ELSE {})

\* C12: no return type, parameter type or replacement of any that the
\* reconciler writes is 100 characters or longer; and once the five steps
\* have run over a file, every inferred text of 99 characters that is not
\* void (return type) or any (parameter, replacement) and whose setter does
\* not raise has been written.
C12_LongTypeTextNeverWritten ==
  /\ \A text \in AllWrittenInferredTexts : text.len < 100
  /\ typePc = "save" =>
       \A i \in 1..Len(sourceFile) :
          LET d == sourceFile[i]
          IN /\ (d.kind \in {"arrow", "function"} /\ d.inferredRet.len = 99 /\ ~d.raises)
                  => d.ret # NoType
             /\ \A j \in 1..Len(d.params) :
                  (d.params[j].inferred.len = 99 /\ ~d.params[j].raises)
                    => d.params[j].ann # NoType
             /\ (d.kind = "var" /\ d.initType.len = 99 /\ ~d.raises) => d.typeNode.t # "any"

\* a file where texts of 99 characters were written and texts of 100
\* characters were not, at each of the three kinds of place
C12_Witness ==
  /\ typePc = "save"
  /\ \E i \in 1..Len(sourceFile) :
       sourceFile[i].ret.len = 99 /\ typeStart[CurrentFile].decls[i].ret = NoType
  /\ \E i \in 1..Len(sourceFile) :
       sourceFile[i].inferredRet.len = 100 /\ sourceFile[i].ret = NoType
  /\ \E i \in 1..Len(sourceFile) : \E j, k \in 1..Len(sourceFile[i].params) :
       /\ sourceFile[i].params[j].ann.len = 99
       /\ sourceFile[i].params[k].inferred.len = 100 /\ sourceFile[i].params[k].ann = NoType
  /\ \E i, k \in 1..Len(sourceFile) :
       /\ typeStart[CurrentFile].decls[i].typeNode.t = "any" /\ sourceFile[i].typeNode.len = 99
       /\ sourceFile[k].initType.len = 100 /\ sourceFile[k].typeNode.t = "any"

\* ---------------------------------------------------------------- C13
\* C13: the reconciler never writes any as an annotation: a return type
\* that was missing is never set to any, and a parameter type that was
\* missing is never set to any.
C13_AnyNeverWritten ==
  InProcessFile =>
    \A i \in 1..Len(sourceFile) :
       LET before == typeStart[CurrentFile].decls[i]
           after == sourceFile[i]
       IN /\ before.ret = NoType => after.ret.t # "any"
          /\ \A j \in 1..Len(after.params) :
               before.params[j].ann = NoType => after.params[j].ann.t # "any"

\* ---------------------------------------------------------------- C14
\* how TypeScript reads a single-quoted string literal from position i on:
\* a backslash takes the next character with it, a quote ends the literal,
\* and the literal is the whole text only if that quote is the last character
RECURSIVE ScanLiteral(_, _, _)
ScanLiteral(chars, i, acc) ==
  IF i > Len(chars) THEN [ok |-> FALSE, value |-> acc]
  ELSE IF chars[i] = "'" THEN [ok |-> i = Len(chars), value |-> acc]
  ELSE IF chars[i] = "\\"
       THEN IF i = Len(chars) THEN [ok |-> FALSE, value |-> acc]
            ELSE ScanLiteral(chars, i + 2, Append(acc, chars[i + 1]))
  ELSE ScanLiteral(chars, i + 1, Append(acc, chars[i]))

\* the string whose literal type a type node denotes, if it denotes one
DenotedLiteral(typeNode) ==
  IF typeNode.chars # <<>> /\ Head(typeNode.chars) = "'"
  THEN ScanLiteral(typeNode.chars, 2, <<>>)
  ELSE [ok |-> FALSE, value |-> <<>>]

\* C14: a variable declared string that improveTypeSpecificity rewrote has
\* as declared type the literal type of exactly its initializer's value,
\* whatever characters the value contains.
C14_LiteralTypeIsInitializerValue ==
  InProcessFile =>
    \A i \in 1..Len(sourceFile) :
       (typeStart[CurrentFile].decls[i].typeNode.t = "string"
          /\ sourceFile[i].typeNode.t = "literal")
         => /\ DenotedLiteral(sourceFile[i].typeNode).ok
            /\ DenotedLiteral(sourceFile[i].typeNode).value = sourceFile[i].value

\* ---------------------------------------------------------------- C15
\* C15: a setter that raises costs only its own item: when the run is over
\* every file of the list has been gone through, and when processFile is
\* over every type of a types file whose export does not raise is exported
\* and every missing return type that passes the filters and whose setter
\* does not raise is set.
C15_FailureSkipsOnlyThatItem ==
  /\ typePc \in {"done", "aborted"} => fileIndex > Len(files)
  /\ typePc \in {"save", "aborted"} =>
       \A i \in 1..Len(sourceFile) :
          LET before == typeDisk[CurrentFile].decls[i]
              after == sourceFile[i]
          IN /\ ( /\ typeDisk[CurrentFile].typesPath
                  /\ before.kind \in {"interface", "alias"}
                  /\ ~before.raises ) => after.exported
             /\ ( /\ before.kind \in {"arrow", "function"}
                  /\ before.ret = NoType
                  /\ before.inferredRet.t # "void"
                  /\ before.inferredRet.len < 100
                  /\ ~before.raises ) => after.ret = before.inferredRet

\* ---------------------------------------------------------------- C16
\* C16: what analyzeFile returned for the origin the run loaded: a function
\* is a candidate exactly when it has more than minFunctionLines lines, a
\* variable declaration exactly when it has more than minVariableLines
\* lines, every interface and type alias is one whatever its size, and
\* there are no other candidates.
C16_CandidatesByThreshold ==
  (opts.pass = "top" /\ pc \notin {"idle", "analyze"}) =>
    LET stmts == startDisk.origin.stmts
        IsCandidate(id, j, type) ==
          \E k \in 1..Len(candidates) :
             candidates[k].node = id /\ candidates[k].decl = j /\ candidates[k].type = type
    IN /\ \A i \in 1..Len(stmts) :
            /\ stmts[i].kind = "function" =>
                 (IsCandidate(stmts[i].id, 0, "function")
                    <=> stmts[i].lines > opts.minFunctionLines)
            /\ stmts[i].kind = "var" =>
                 \A j \in 1..Len(stmts[i].decls) :
                    IsCandidate(stmts[i].id, j, "variable")
                      <=> stmts[i].decls[j].lines > opts.minVariableLines
            /\ stmts[i].kind = "interface" => IsCandidate(stmts[i].id, 0, "interface")
            /\ stmts[i].kind = "alias" => IsCandidate(stmts[i].id, 0, "type")
       /\ \A k \in 1..Len(candidates) :
            \E i \in 1..Len(stmts) :
               /\ stmts[i].id = candidates[k].node
               /\ stmts[i].kind = (CASE candidates[k].type = "function" -> "function"
                                     [] candidates[k].type = "variable" -> "var"
                                     [] candidates[k].type = "interface" -> "interface"
                                     [] candidates[k].type = "type" -> "alias")

\* a run whose origin has a function of exactly minFunctionLines lines and a
\* variable of exactly minVariableLines lines, neither a candidate, beside a
\* function one line longer and a one-line type alias that are candidates
C16_Witness ==
  /\ opts.pass = "top" /\ pc = "extractTypes"
  /\ \E i \in 1..Len(startDisk.origin.stmts) :
       LET s == startDisk.origin.stmts[i]
       IN s.kind = "function" /\ s.lines = opts.minFunctionLines
            /\ \A k \in 1..Len(candidates) : candidates[k].node # s.id
  /\ \E i \in 1..Len(startDisk.origin.stmts) :
       LET s == startDisk.origin.stmts[i]
       IN s.kind = "function" /\ s.lines = opts.minFunctionLines + 1
            /\ \E k \in 1..Len(candidates) : candidates[k].node = s.id
  /\ \E i \in 1..Len(startDisk.origin.stmts) :
       LET s == startDisk.origin.stmts[i]
       IN s.kind = "var" /\ s.decls[1].lines = opts.minVariableLines
            /\ \A k \in 1..Len(candidates) : candidates[k].node # s.id

\* ---------------------------------------------------------------- C17
\* the statements a step writes into a target module
WrittenNow ==
  CASE pc = "extractTypes" /\ pc' = "typesRemove" -> SeqToSet(proj'.types.stmts)
    [] pc = "utilsWrite" /\ pc' = "utilsImport" -> SeqToSet(proj'.utils.stmts)
    [] pc = "writeUtils" /\ pc' = "removeHelpers" ->
         {proj'.utils.stmts[i] : i \in (Len(proj.utils.stmts) + 1)..Len(proj'.utils.stmts)}
    [] OTHER -> {}

\* the statements of the origin the run loaded: top-level ones, and those of
\* the component's body
OriginalStatements ==
  LET stmts == startDisk.origin.stmts
      comp == FindComponent(stmts)
  IN SeqToSet(stmts)
       \cup (IF HasBlockBody(stmts, comp)
             THEN SeqToSet(ComponentDecl(stmts, comp).body) ELSE {})

\* C17 as stated: every statement written into a target module is a
\* statement of the origin, word for word, preceded by export if it was not
\* exported: its keyword and its declarations are those of the origin.
C17_WrittenTextVerbatimWithExport ==
  [][\A w \in WrittenNow :
       \E o \in OriginalStatements : w = [o EXCEPT !.exported = TRUE]]_vars

\* C17 amended: every statement written into a target module is exported
\* and comes from a statement of the origin: unchanged if that one was
\* exported already; an interface or type alias preceded by export; a
\* variable statement with its keyword (const, let or var) replaced by
\* export const, its declarations unchanged.
C17_WrittenTextExportedAsConst ==
  [][\A w \in WrittenNow :
       /\ w.exported
       /\ \E o \in OriginalStatements :
            \/ o.exported /\ w = o
            \/ ~o.exported /\ o.kind # "var" /\ w = [o EXCEPT !.exported = TRUE]
            \/ ~o.exported /\ o.kind = "var"
                 /\ w = [o EXCEPT !.exported = TRUE, !.kw = "const"]]_vars

\* the top-level pass has written an exported type alias as it was and a
\* let statement as export const
C17_Witness ==
  /\ pc = "utilsImport"
  /\ \E o \in SeqToSet(startDisk.origin.stmts) :
       o.kind = "alias" /\ o.exported /\ o \in SeqToSet(proj.types.stmts)
  /\ \E o \in SeqToSet(startDisk.origin.stmts) :
       /\ o.kind = "var" /\ o.kw = "let" /\ ~o.exported
       /\ [o EXCEPT !.exported = TRUE, !.kw = "const"] \in SeqToSet(proj.utils.stmts)

\* ---------------------------------------------------------------- C18
\* C18: whenever a pass saves the utilities module with the declarations it
\* extracted while the types module on storage exports types, the saved
\* utilities module has a type-only import, from the types module, of
\* exactly the exported type names.
C18_UtilitiesImportExportedTypes ==
  [][( /\ pc \in {"utilsSave", "writeUtils"}
       /\ disk'.utils # disk.utils
       /\ getExportedTypeNames(disk.types) # <<>> )
      => \E i \in 1..Len(disk'.utils.imports) :
            LET imp == disk'.utils.imports[i]
            IN /\ imp.typeOnly
               /\ imp.spec = toModuleSpecifier(UtilsFile, TypesFile)
               /\ SeqToSet(imp.names) = SeqToSet(getExportedTypeNames(disk.types))]_vars

\* ---------------------------------------------------------------- C19
\* the number of places where `after` differs from `before`: export flags,
\* return types, parameter types, variable types
FixesWritten(before, after) ==
  SumSeq([i \in 1..Len(after) |->
            (IF after[i].exported # before[i].exported THEN 1 ELSE 0)
          + (IF after[i].ret # before[i].ret THEN 1 ELSE 0)
          + Cardinality({j \in 1..Len(after[i].params) :
                           after[i].params[j].ann # before[i].params[j].ann})
          + (IF after[i].typeNode # before[i].typeNode THEN 1 ELSE 0)])

\* processFile is left, for a file it had loaded
LeavesProcessFile ==
  /\ typePc \in {"ensureTypeExports", "save"}
  /\ typePc' \in {"processFile", "aborted"}

\* C19: when processFile is left, the file on storage has been rewritten if
\* and only if at least one fix was written to the declarations in memory,
\* and totalFixes is the number of fixes written.
C19_SavedIffFixed ==
  [][LeavesProcessFile =>
       LET written == FixesWritten(typeDisk[CurrentFile].decls, sourceFile')
       IN /\ (typeDisk' # typeDisk) <=> written > 0
          /\ totalFixes' = written]_vars

\* C19 for the calls of processFile that return
C19_SavedIffFixedOnReturn ==
  [][(LeavesProcessFile /\ typePc' # "aborted") =>
       LET written == FixesWritten(typeDisk[CurrentFile].decls, sourceFile')
       IN /\ (typeDisk' # typeDisk) <=> written > 0
          /\ totalFixes' = written]_vars

\* ---------------------------------------------------------------- C20
\* the scripts as stages of the pipeline: an extraction script over an origin
\* module of at most MaxStageStmts statements, or analyze-types over its files
PipelineInit ==
  \/ Init /\ Len(disk.origin.stmts) <= MaxStageStmts
  \/ TypeInit /\ typeDisk = FilePool(<<"a">>)

PipelineNext == Next \/ TypeNext

\* a script that has been started runs to its end: node executes one
\* statement after the other; when a script is started is up to the user
FairSpec ==
  /\ PipelineInit
  /\ [][PipelineNext]_vars
  /\ WF_vars(pc # "idle" /\ Next)
  /\ WF_vars(TypeNext)

\* the steps of each stage, in the order of the script's text
TopLevelSteps ==
  <<"analyze", "extractTypes", "typesRemove", "typesImport", "typesSave",
    "extractUtilities", "utilsWrite", "utilsImport", "utilsSave", "save">>
NestedSteps ==
  <<"findHelpers", "writeUtils", "removeHelpers", "nestedImport", "nestedSaveOrigin",
    "finalSave">>
TypeSteps ==
  <<"processFile", "ensureTypeExports", "addReturnTypes", "addParameterTypes",
    "fixAnyTypes", "improveTypeSpecificity", "save">>

Position(steps, step) == CHOOSE i \in 1..Len(steps) : steps[i] = step

\* a step goes to a later step of its stage or ends the script; the
\* reconciler goes through its steps once per file, file after file
ForwardStep ==
  /\ pc' # pc =>
       \/ pc = "idle" /\ pc' \in {Head(TopLevelSteps), Head(NestedSteps)}
       \/ pc # "idle" /\ pc' = "idle"
       \/ \E steps \in {TopLevelSteps, NestedSteps} :
            /\ pc \in SeqToSet(steps) /\ pc' \in SeqToSet(steps)
            /\ Position(steps, pc') > Position(steps, pc)
  /\ <<typePc, fileIndex>>' # <<typePc, fileIndex>> =>
       \/ typePc = "idle" /\ typePc' = Head(TypeSteps) /\ fileIndex' = 1
       \/ typePc \in SeqToSet(TypeSteps) /\ typePc' \in {"done", "aborted"}
            /\ fileIndex' = fileIndex
       \/ /\ typePc \in SeqToSet(TypeSteps) /\ typePc' \in SeqToSet(TypeSteps)
          /\ \/ fileIndex' = fileIndex
                  /\ Position(TypeSteps, typePc') > Position(TypeSteps, typePc)
             \/ fileIndex' = fileIndex + 1 /\ typePc' = Head(TypeSteps)

\* none of the five steps has anything to write in the file, and nothing raises
NothingToFix(file) ==
  \/ ~file.exists
  \/ /\ ~ensureTypeExports(file).threw
     /\ ensureTypeExports(file).fixCount = 0
     /\ addReturnTypes(file.decls).fixCount = 0
     /\ addParameterTypes(file.decls).fixCount = 0
     /\ fixAnyTypes(file.decls).fixCount = 0
     /\ improveTypeSpecificity(file.decls).fixCount = 0

C21_NestedWriteAppends ==
  [][( /\ pc = "writeUtils" /\ pc' = "removeHelpers"
       /\ disk.utils.exists )
      => /\ disk'.utils.imports = disk.utils.imports
         /\ Len(disk'.utils.stmts) = Len(disk.utils.stmts) + Len(work.texts)
         /\ SubSeq(disk'.utils.stmts, 1, Len(disk.utils.stmts)) = disk.utils.stmts
         /\ \A k \in 1..Len(work.texts) :
              disk'.utils.stmts[Len(disk.utils.stmts) + k]
                = [work.texts[k].text EXCEPT !.exported = TRUE, !.kw = "const"]]_vars

\* ---------------------------------------------------------------- C22
\* where in the origin the run loaded a candidate's declaration stands:
\* the place of its statement, then of the declaration in the statement
PlaceOf(c) ==
  <<CHOOSE i \in 1..Len(startDisk.origin.stmts) : startDisk.origin.stmts[i].id = c.node,
    c.decl>>

Before(p, q) == p[1] < q[1] \/ (p[1] = q[1] /\ p[2] < q[2])

\* the group analyzeFile puts a candidate in
KindGroup(c) ==
  CASE c.type = "function" -> 1
    [] c.type = "variable" -> 2
    [] c.type = "interface" -> 3
    [] c.type = "type" -> 4

AnalyzeFileReturned == opts.pass = "top" /\ pc \notin {"idle", "analyze"}

\* C22 as stated: analyzeFile lists the candidates in the order in which
\* their declarations stand in the module, whatever their kind and size.
C22_CandidatesInModuleOrder ==
  AnalyzeFileReturned =>
    \A k, l \in 1..Len(candidates) :
       k < l => Before(PlaceOf(candidates[k]), PlaceOf(candidates[l]))

\* C22 amended: analyzeFile lists the functions, then the variable
\* declarations, then the interfaces, then the type aliases, and within
\* each of the four groups the candidates in the order in which their
\* declarations stand in the module, whatever their size.
C22_CandidatesByKindThenModuleOrder ==
  AnalyzeFileReturned =>
    \A k, l \in 1..Len(candidates) :
       k < l =>
         \/ KindGroup(candidates[k]) < KindGroup(candidates[l])
         \/ /\ KindGroup(candidates[k]) = KindGroup(candidates[l])
            /\ Before(PlaceOf(candidates[k]), PlaceOf(candidates[l]))

\* analyzeFile returned a function after which an interface stands earlier
\* in the module, and two declarations of one statement, the shorter last
C22_Witness ==
  /\ AnalyzeFileReturned
  /\ \E k, l \in 1..Len(candidates) :
       /\ k < l /\ candidates[k].type = "function" /\ candidates[l].type = "interface"
       /\ Before(PlaceOf(candidates[l]), PlaceOf(candidates[k]))
  /\ \E k, l \in 1..Len(candidates) :
       /\ k < l /\ candidates[k].node = candidates[l].node
       /\ candidates[k].lineCount > candidates[l].lineCount

\* ---------------------------------------------------------------- C23
\* C23: for every origin path and target path, the specifier
\* toModuleSpecifier returns has the trailing .ts/.tsx/.js/.jsx extension of
\* the target stripped and begins with the self marker or the parent marker,
\* also when the relative path's first segment merely starts with a dot.
\* (Segments stand for what the separators delimit, so the separators
\* themselves are not part of the statement.)
ExtensionStripped(toFile, specifier) ==
  IF Len(toFile.parts) > 1 /\ Last(toFile.parts) \in SourceExts
  THEN specifier.parts = Front(toFile.parts)
  ELSE specifier.parts = toFile.parts

C23_SpecifierBeginsWithMarker ==
  returned.fn = "toModuleSpecifier" =>
    /\ ExtensionStripped(call.toFile, returned.value)
    /\ returned.value.segs # <<>>
    /\ returned.value.segs[1] \in {".", ".."}

\* ---------------------------------------------------------------- C24
OriginImports(origin, moduleSpecifier) ==
  {origin.imports[i] : i \in {j \in 1..Len(origin.imports) :
                                 origin.imports[j].spec = moduleSpecifier}}

\* C24 as stated: the binding the rewrite puts into the origin for the types
\* module is marked type-only, the binding for the utilities module is not.
C24_TypesBindingIsTypeOnly ==
  /\ \A imp \in OriginImports(mem, TypesSpecifier) : imp.typeOnly
  /\ \A imp \in OriginImports(mem, UtilsSpecifier) : ~imp.typeOnly

\* C24: neither binding the rewrite puts into the origin is marked
\* type-only, in memory or on storage: the binding for the types module is
\* an ordinary named import, like the one for the utilities module.
C24_OriginBindingsNotTypeOnly ==
  \A origin \in {mem, disk.origin} :
    \A imp \in OriginImports(origin, TypesSpecifier) \cup OriginImports(origin, UtilsSpecifier) :
      ~imp.typeOnly /\ imp.names # <<>>

C24_Witness ==
  /\ RunCompleted
  /\ OriginImports(disk.origin, TypesSpecifier) # {}
  /\ OriginImports(disk.origin, UtilsSpecifier) # {}

\* ---------------------------------------------------------------- C25
\* the nested pass has nothing to extract from the origin: no composite
\* definition with a block body, or no nested binding matching the pattern
NoHelperFound(origin) ==
  LET comp == FindComponent(origin.stmts)
  IN \/ ~HasBlockBody(origin.stmts, comp)
     \/ HelperFunctions(ComponentDecl(origin.stmts, comp).body, cfg.pattern) = <<>>

InRun(pass) == runs > 0 /\ opts.pass = pass

\* C25: a nested pass that finds no composite definition or no matching
\* nested binding changes nothing: from its start to its end the utilities
\* module, the types module and the origin's statements and imports are what
\* they were before the pass; a top-level pass with no type candidate leaves
\* the types file as it was, and one with no utility candidate leaves the
\* utilities file as it was.
C25_SkipChangesNothing ==
  /\ (InRun("nested") /\ NoHelperFound(startDisk.origin)) => disk = startDisk
  /\ InRun("top") =>
       LET found == analyzeFile(startDisk.origin.stmts, opts.minFunctionLines,
                                opts.minVariableLines)
       IN /\ TypeCandidates(found) = <<>> => disk.types = startDisk.types
          /\ UtilCandidates(found, cfg.pattern) = <<>> => disk.utils = startDisk.utils

C25_Witness ==
  /\ RunCompleted
  /\ InRun("nested")
  /\ NoHelperFound(startDisk.origin)
  /\ startDisk.utils.exists
  /\ prev.opts.pass = "top"
  /\ TypeCandidates(prev.candidates) = <<>>

\* ---------------------------------------------------------------- C26
\* the structural errors of a pass: the origin file is missing, or (nested
\* pass) there is no composite definition or its body is not a block
StructuralError(origin, pass) ==
  \/ ~origin.exists
  \/ pass = "nested" /\ ~HasBlockBody(origin.stmts, FindComponent(origin.stmts))

\* C26: a structural error is a skip of that step only: a run of an
\* extraction script that meets one (a missing origin included) is not
\* aborted, it goes on through its remaining steps and ends completed.
C26_StructuralErrorIsSkipped ==
  (pc = "idle" /\ runs > 0 /\ StructuralError(startDisk.origin, opts.pass))
    => outcome = "completed"

\* ---------------------------------------------------------------- C27
Attempted(i, step) ==
  \E k \in 1..Len(lintLog) : lintLog[k].file = i /\ lintLog[k].step = step

Warned(i, step) ==
  \E k \in 1..Len(lintLog) :
    lintLog[k].file = i /\ lintLog[k].step = step /\ lintLog[k].warned

\* the steps of the file at lintIndex that lie before the step fix-lint is at
StepsBehind ==
  IF lintPc = "fixCommonIssues" THEN {"organizeImports"}
  ELSE IF lintPc = "formatFile" THEN {"organizeImports", "fixCommonIssues"}
  ELSE IF lintPc = "fixLinting" THEN {"organizeImports", "fixCommonIssues", "formatFile"}
  ELSE {}

\* C27: a failing step (import organising, Prettier, ESLint) only leaves a
\* warning: processFiles is never left by an exception, every step of a file
\* that lies behind the current one has been attempted whatever failed
\* before it, and every existing file that processFiles has gone past has had
\* all four steps attempted.
C27_FailureIsWarningOnly ==
  /\ lintPc \in {"off", "idle", "processFile", "fixCommonIssues", "formatFile",
                  "fixLinting", "done"}
  /\ \A step \in StepsBehind : Attempted(lintIndex, step)
  /\ \A i \in 1..Len(lintDisk) :
       (lintDisk[i].exists /\ (lintPc = "done" \/ lintIndex > i))
         => \A step \in SeqToSet(LintSteps) : Attempted(i, step)

C27_Witness ==
  /\ lintPc = "done"
  /\ Warned(1, "organizeImports")
  /\ Warned(1, "formatFile")
  /\ Warned(1, "fixLinting")
  /\ Attempted(1, "fixLinting")
  /\ \A step \in SeqToSet(LintSteps) : Attempted(3, step)

\* ---------------------------------------------------------------- C29
\* C29: import organising is non-destructive: whenever fix-lint writes a
\* file, the file holds the import declarations it held before, in the order
\* react, packages, local modules, alphabetical within each group; no file is
\* saved with imports missing, also when organizeImports raises part-way.
C29_SavedImportsAreTheSortedImports ==
  [][\A i \in 1..Len(lintDisk) :
       lintDisk'[i] # lintDisk[i] =>
         lintDisk'[i].imports = SortImports(lintDisk[i].imports)]_vars

\* ---------------------------------------------------------------- C28
\* the statements a pass has copied for the target module, by id
CopiedStatements ==
  [i \in 1..Len(work.texts) |->
     IF opts.pass = "nested" THEN work.texts[i].text.id ELSE work.texts[i].id]

\* C28: every candidate's node is a live declaration of the origin when it
\* is extracted, also when several candidates share a variable statement: no
\* step of a pass reads a node that an earlier step of the pass removed, and
\* no statement is copied for the target module twice.
C28_CandidateNodesAreLive ==
  /\ "forgottenNode" \notin faults
  /\ NoDuplicates(CopiedStatements)

\* ---------------------------------------------------------------- C30
\* C30: a merge of new names into an existing import binding of the origin
\* keeps what the binding brought into scope: after the merge the binding
\* for that module has the default import and the type-only marking it had
\* before, every name it had, and the new names.
C30_MergeKeepsExistingBinding ==
  (returned.fn \in {"addOrUpdateNamedImport", "mergeHelperImport"}
     /\ ImportIndex(call.imports, call.moduleSpecifier) # 0)
    => LET before == call.imports[ImportIndex(call.imports, call.moduleSpecifier)]
           after == returned.value[ImportIndex(returned.value, call.moduleSpecifier)]
       IN /\ ImportIndex(returned.value, call.moduleSpecifier) # 0
          /\ after.def = before.def
          /\ after.typeOnly = before.typeOnly
          /\ SeqToSet(after.names) = SeqToSet(before.names) \cup SeqToSet(call.names)

====
